---- MODULE Spec2Model ----
(***************************************************************************)
(* A model of linkplayctl.Client (src/linkplayctl/client.py): one client   *)
(* bound to one device, executing one public operation at a time.  Every   *)
(* request the client sends is answered by the device with a reply drawn   *)
(* from a small set (a connection error, or a status and a body).          *)
(*                                                                         *)
(* Python strings are sequences of atoms: every digit, sign, "." and ":"   *)
(* is an atom of its own and every alphabetic word is one atom, so that    *)
(* startswith, split, int() and float() are computed on the text itself.   *)
(* Commands recorded as sent are flattened to TLA+ strings.                *)
(***************************************************************************)
EXTENDS Integers, Sequences, FiniteSets, TLC

VARIABLES
    op,           \* the public operation in progress, "idle" between calls
    pc,           \* position inside the operation, "done" when it has ended
    value,        \* the caller's argument (volume value, mode, preset number)
    new_pass,     \* wifi_auth's second argument
    max_retries,  \* _safe_reboot's retry bound
    try_count,    \* _safe_reboot's attempt counter
    old_volume,   \* quiet_reboot's saved volume
    new_volume,   \* _volume's clamped volume to set
    wire_value,   \* the code about to be sent: _loop's value, mode_value, auth_value, preset number
    log,          \* history of this call: each request sent and what came of it
    ret,          \* the value returned by the operation
    err,          \* the exception that ended the operation
    newpos_ms,    \* _position's argument: the position asked for, in milliseconds
    now,                \* time.time(), in milliseconds
    last_command_time,  \* the client's _last_command_time, in milliseconds
    session,            \* whether the client has opened its requests session
    slave,              \* the second client multiroom_add creates
    attempts,           \* history of the requests issued: who, to whom, what, when
    delay_ms,           \* _send's remaining inter-command delay
    sender,             \* the client whose _send is running
    command,            \* _send's argument
    response,           \* what _send returned
    info,               \* multiroom_add's info: the device status it read
    commands,           \* the command line's words (args.commands)
    cur_command_words,  \* the words still taken for the method name
    cur_arguments,      \* the words taken for arguments
    exit_code,          \* the status the process exited with, -1 while it runs
    hex_string          \* the text given to _dehex

posVars == <<newpos_ms>>
sendVars == <<now, last_command_time, session, slave, attempts, delay_ms, sender, command, response, info>>
cliVars == <<commands, cur_command_words, cur_arguments, exit_code>>
hexVars == <<hex_string>>

vars == <<op, pc, value, new_pass, max_retries, try_count, old_volume, new_volume, wire_value, log, ret, err,
          posVars, sendVars, cliVars, hexVars>>

(***************************************************************************)
(* Bounds of the model                                                     *)
(***************************************************************************)
MaxRetriesArg == 3      \* safe_reboot is called with max_retries in -2..MaxRetriesArg
MaxDelta == 100         \* relative volume deltas range over -MaxDelta..MaxDelta
MaxModeCode == 100      \* the device reports player source codes in 0..MaxModeCode
StartTime == 10000      \* the clock's reading, in milliseconds, when the client is constructed

(***************************************************************************)
(* Program constants                                                       *)
(***************************************************************************)
quiet_reboot_volume == 1
default_max_retries == 3
MinVolume == 0
MaxVolume == 100
HTTP_OK == 200

(***************************************************************************)
(* Python values                                                           *)
(***************************************************************************)
PyStr(s) == [t |-> "str", s |-> s, n |-> 0]
PyInt(n) == [t |-> "int", s |-> <<>>, n |-> n]
PyNone == [t |-> "None", s |-> <<>>, n |-> 0]

Digits == <<"0", "1", "2", "3", "4", "5", "6", "7", "8", "9">>
IsDigit(a) == \E i \in 1..10 : Digits[i] = a
DigitVal(a) == (CHOOSE i \in 1..10 : Digits[i] = a) - 1

RECURSIVE NatStr(_)
\* str(n) for n >= 0, as a sequence of digit atoms
NatStr(n) == IF n < 10 THEN <<Digits[n + 1]>> ELSE NatStr(n \div 10) \o <<Digits[(n % 10) + 1]>>

\* str(n) for an int
IntStr(n) == IF n < 0 THEN <<"-">> \o NatStr(-n) ELSE NatStr(n)

RECURSIVE Join(_)
\* the text of an atom sequence as one TLA+ string
Join(s) == IF s = <<>> THEN "" ELSE Head(s) \o Join(Tail(s))

RECURSIVE DigitsVal(_, _)
\* the number written by a sequence of digit atoms, acc the value so far
DigitsVal(s, acc) == IF s = <<>> THEN acc ELSE DigitsVal(Tail(s), 10 * acc + DigitVal(Head(s)))

AllDigits(s) == \A i \in 1..Len(s) : IsDigit(s[i])
HasSign(s) == Len(s) > 0 /\ s[1] \in {"+", "-"}
Unsigned(s) == IF HasSign(s) THEN Tail(s) ELSE s
SignOf(s) == IF Len(s) > 0 /\ s[1] = "-" THEN -1 ELSE 1

\* the outcome of a conversion: a number, or the exception it raises
Num(n) == [exc |-> "", n |-> n]
Raise(kind) == [exc |-> kind, n |-> 0]

\* str(x)
PyStrOf(x) == IF x.t = "int" THEN IntStr(x.n) ELSE IF x.t = "None" THEN <<"None">> ELSE x.s

\* int(x)
PyIntOf(x) ==
    IF x.t = "int" THEN Num(x.n)
    ELSE IF x.t = "None" THEN Raise("TypeError")
    ELSE LET u == Unsigned(x.s) IN
         IF Len(u) > 0 /\ AllDigits(u) THEN Num(SignOf(x.s) * DigitsVal(u, 0))
         ELSE Raise("ValueError")

\* int(math.floor(float(x)))
PyFloorFloat(x) ==
    IF x.t = "int" THEN Num(x.n)
    ELSE IF x.t = "None" THEN Raise("TypeError")
    ELSE LET u == Unsigned(x.s)
             dots == {i \in 1..Len(u) : u[i] = "."}
             dot == IF dots = {} THEN Len(u) + 1 ELSE CHOOSE i \in dots : \A j \in dots : i <= j
             ip == SubSeq(u, 1, dot - 1)
             fp == SubSeq(u, dot + 1, Len(u))
             whole == DigitsVal(ip, 0)
         IN IF Cardinality(dots) <= 1 /\ AllDigits(ip) /\ AllDigits(fp) /\ Len(ip) + Len(fp) > 0
            THEN IF SignOf(x.s) = 1 THEN Num(whole)
                 ELSE IF DigitsVal(fp, 0) > 0 THEN Num(-whole - 1) ELSE Num(-whole)
            ELSE Raise("ValueError")

Max(a, b) == IF a >= b THEN a ELSE b
Min(a, b) == IF a <= b THEN a ELSE b

(***************************************************************************)
(* Replies of the device                                                   *)
(***************************************************************************)
\* requests.get raised: _send turns it into ConnectionException
ConnError == [conn |-> TRUE, status |-> 0, kind |-> "text", text |-> <<>>, n |-> 0, key |-> "", val |-> <<>>]
\* a body that is no JSON document
TextReply(st, s) == [conn |-> FALSE, status |-> st, kind |-> "text", text |-> s, n |-> 0, key |-> "", val |-> <<>>]
\* a body that is a JSON number
IntReply(st, n) == [conn |-> FALSE, status |-> st, kind |-> "int", text |-> IntStr(n), n |-> n, key |-> "", val |-> <<>>]
\* a body that is a JSON object; of its keys the model keeps the one the operation reads
DictReply(st, k, v) == [conn |-> FALSE, status |-> st, kind |-> "dict", text |-> <<"{}">>, n |-> 0, key |-> k, val |-> v]

Statuses == {HTTP_OK, 500}

\* no response received yet
NoResponse == TextReply(0, <<>>)
\* multiroom_add has not read the device status
NoInfo == [ssid |-> PyNone, WifiChannel |-> PyNone, securemode |-> PyNone, auth |-> PyNone,
           encry |-> PyNone, psk |-> PyNone]
\* multiroom_add has not created its second client
NoSlave == [address |-> "", last_command_time |-> 0, session |-> FALSE]

\* what the device may answer to a command whose body is plain text
PlainReplies == {ConnError} \cup {TextReply(st, s) : st \in Statuses, s \in {<<"OK">>, <<"Failed">>}}

\* what the device may answer to getPlayerStatus, vals being the values of field key
StatusReplies(key, vals) ==
    {ConnError, TextReply(HTTP_OK, <<"Failed">>), TextReply(500, <<"Failed">>), IntReply(HTTP_OK, 0),
     DictReply(HTTP_OK, "", <<>>)}
    \cup {DictReply(st, key, v) : st \in Statuses, v \in vals}

VolumeTexts == {NatStr(c) : c \in MinVolume..MaxVolume} \cup {<<"x">>}

(***************************************************************************)
(* Outcomes of the internal methods                                        *)
(***************************************************************************)
NoErr == [kind |-> "", msg |-> ""]
Exc(kind, msg) == [kind |-> kind, msg |-> msg]

\* _json_decode(response): the decoded document, or APIException
JsonFails(r) == r.kind = "text"

\* dict.get(key) on a decoded getPlayerStatus document
DictGet(r, k) == IF r.key = k THEN PyStr(r.val) ELSE PyNone

\* the exception _player_info().get(key) ends with, "" when it returns
PlayerInfoExc(r) ==
    IF r.conn THEN "ConnectionException"
    ELSE IF JsonFails(r) THEN "APIException"
    ELSE IF r.kind # "dict" THEN "AttributeError"
    ELSE ""

\* _volume() with no argument: int(self._player_info().get("vol"))
VolumeGet(r) ==
    IF PlayerInfoExc(r) # "" THEN Raise(PlayerInfoExc(r)) ELSE PyIntOf(DictGet(r, "vol"))

\* _check(): True iff _player_info() returns a dict with a 'vol' key
Check(r) ==
    IF r.conn \/ JsonFails(r) THEN FALSE
    ELSE IF r.kind # "dict" \/ r.key # "vol" THEN FALSE
    ELSE TRUE

\* the volume passed on without clamping
NoClamp(n) == n

\* the volume a set request carries: max(0, min(100, n))
ClampVolume(n) == Max(MinVolume, Min(MaxVolume, n))

VolCmd(n) == "setPlayerCmd:vol:" \o Join(IntStr(n))

\* one entry of the call's history
Ev(cmd, what, n) == [cmd |-> cmd, what |-> what, n |-> n]
\* the commands sent so far in this call, in order
Sent == [i \in 1..Len(log) |-> log[i].cmd]
\* the number of reboot commands sent so far in this call
Reboots == Cardinality({i \in 1..Len(log) : log[i].cmd = "reboot"})

(***************************************************************************)
(* Initial state and the end of a call                                     *)
(***************************************************************************)
Init ==
    /\ op = "idle" /\ pc = "idle"
    /\ value = PyNone /\ new_pass = PyNone
    /\ max_retries = 0 /\ try_count = 0 /\ old_volume = 0 /\ new_volume = 0 /\ wire_value = 0
    /\ log = <<>> /\ ret = PyNone /\ err = NoErr
    /\ newpos_ms = PyNone
    /\ now = StartTime /\ last_command_time = 0 /\ session = FALSE /\ slave = NoSlave
    /\ attempts = <<>> /\ delay_ms = 0 /\ sender = "self" /\ command = "" /\ response = NoResponse
    /\ info = NoInfo
    /\ commands = <<>> /\ cur_command_words = <<>> /\ cur_arguments = <<>> /\ exit_code = -1
    /\ hex_string = PyNone

\* the operation returns r
Finish(r) == pc' = "done" /\ ret' = r /\ err' = NoErr
\* the operation ends by raising
Fail(kind, msg) == pc' = "done" /\ ret' = PyNone /\ err' = Exc(kind, msg)

\* the caller gets the result; the client is ready for the next call
Return ==
    /\ pc = "done"
    /\ op' = "idle" /\ pc' = "idle"
    /\ value' = PyNone /\ new_pass' = PyNone
    /\ max_retries' = 0 /\ try_count' = 0 /\ old_volume' = 0 /\ new_volume' = 0 /\ wire_value' = 0
    /\ log' = <<>> /\ ret' = PyNone /\ err' = NoErr
    /\ newpos_ms' = PyNone
    /\ UNCHANGED <<sendVars, cliVars, hexVars>>

(***************************************************************************)
(* safe_reboot and _safe_reboot                                            *)
(***************************************************************************)
\* the while condition of _safe_reboot
LoopContinues(tries, retries) == tries <= retries + 1 \/ retries < 0

\* giving up one attempt too early
GivesUpEarly(tries, retries) == tries >= retries

\* "try again or give up": whether a failed attempt raises
GivesUp(tries, retries) == tries >= retries + 1

\* the number the give-up message reports
ReportedAttempts(retries) == retries

GiveUpMsg(retries) ==
    "Failed to bring device back up after " \o Join(IntStr(ReportedAttempts(retries)))
        \o " reboot attempts. Giving up."

\* the statement after _safe_reboot returns "OK"
AfterReboot ==
    IF op = "quiet_reboot"
    THEN pc' = "q_restore" /\ UNCHANGED <<ret, err>>
    ELSE Finish(PyStr(<<"OK">>))

\* response.status_code != 200 or response.content.decode("utf-8") != "OK"
RebootRejected(r) == r.status # HTTP_OK \/ r.text # <<"OK">>

\* the exception raised for a rejected reboot: building APIException's message adds
\* str and bytes ("..." + response.content), which raises TypeError instead
RebootRejectedExc == Exc("TypeError", "can only concatenate str (not \"bytes\") to str")

\* quiet_reboot restoring the volume when its reboot has failed
RestoredOnFailure(e) ==
    IF op = "quiet_reboot" THEN pc' = "q_restore" /\ ret' = PyNone /\ err' = e ELSE Fail(e.kind, e.msg)

\* an exception leaves _reboot or _safe_reboot: no caller catches it
RebootFailed(e) == Fail(e.kind, e.msg)

\* reboot()
RebootCall ==
    /\ pc = "idle"
    /\ op' = "reboot" /\ pc' = "reboot"
    /\ UNCHANGED <<value, new_pass, wire_value, max_retries, try_count, old_volume, new_volume, log, ret, err>>
    /\ UNCHANGED <<posVars, sendVars, cliVars, hexVars>>

SafeRebootCall ==
    /\ pc = "idle"
    /\ \E n \in -2..MaxRetriesArg :
        /\ op' = "safe_reboot" /\ max_retries' = n /\ try_count' = 1
        /\ IF LoopContinues(1, n) THEN pc' = "reboot" /\ UNCHANGED <<ret, err>>
           ELSE Finish(PyStr(<<"OK">>))
    /\ UNCHANGED <<value, new_pass, wire_value, old_volume, new_volume, log>>
    /\ UNCHANGED <<posVars, sendVars, cliVars, hexVars>>

\* _reboot(): send "reboot", require status 200 and body "OK"
RebootStep ==
    /\ pc = "reboot"
    /\ \E r \in PlainReplies :
        /\ log' = Append(log, Ev("reboot", IF r.conn THEN "conn"
                                           ELSE IF RebootRejected(r) THEN "rejected" ELSE "accepted", r.status))
        /\ IF r.conn THEN RebootFailed(Exc("ConnectionException", "Could not connect"))
           ELSE IF RebootRejected(r) THEN RebootFailed(RebootRejectedExc)
           ELSE IF op = "reboot" THEN Finish(PyStr(r.text))
           ELSE pc' = "check" /\ UNCHANGED <<ret, err>>
    /\ UNCHANGED <<op, value, new_pass, wire_value, max_retries, try_count, old_volume, new_volume>>
    /\ UNCHANGED <<posVars, sendVars, cliVars, hexVars>>

\* the sleep, the liveness probe and the decision to retry or give up
CheckStep ==
    /\ pc = "check"
    /\ \E r \in StatusReplies("vol", {<<"5", "0">>}) :
        /\ log' = Append(log, Ev("getPlayerStatus", IF Check(r) THEN "alive" ELSE "dead", try_count))
        /\ IF Check(r) THEN AfterReboot /\ UNCHANGED try_count
           ELSE IF GivesUp(try_count, max_retries)
                THEN RebootFailed(Exc("APIException", GiveUpMsg(max_retries))) /\ UNCHANGED try_count
                ELSE /\ try_count' = try_count + 1
                     /\ IF LoopContinues(try_count + 1, max_retries)
                        THEN pc' = "reboot" /\ UNCHANGED <<ret, err>>
                        ELSE AfterReboot
    /\ UNCHANGED <<op, value, new_pass, wire_value, max_retries, old_volume, new_volume>>
    /\ UNCHANGED <<posVars, sendVars, cliVars, hexVars>>

(***************************************************************************)
(* volume and _volume                                                      *)
(***************************************************************************)
\* isinstance(value, str) and (value.startswith('+') or value.startswith('-'))
IsRelative(v) == v.t = "str" /\ HasSign(v.s)

VolumeMsg(v) ==
    "Volume must be between 0 and 100 or -100 to +100, inclusive, not '"
        \o Join(IF v.t = "int" THEN IntStr(v.n) ELSE v.s) \o "'"

\* what _send's failure or a status other than 200 makes of the set request
SetVolumeExc(r) ==
    IF r.conn THEN "ConnectionException"
    ELSE IF r.status # HTTP_OK THEN "APIException"
    ELSE ""

\* how the history records a request that carries no value the client reads
SendEv(cmd, r) == Ev(cmd, IF r.conn THEN "conn" ELSE "sent", r.status)
\* how the history records a volume read
ReadEv(r) ==
    LET g == VolumeGet(r) IN Ev("getPlayerStatus", IF g.exc = "" THEN "vol" ELSE g.exc, g.n)

SignedTexts == {<<sg>> \o NatStr(d) : sg \in {"+", "-"}, d \in 0..MaxDelta}
BadTexts == {<<"+", "x">>, <<"-", "x">>, <<"x">>, <<>>, <<"+">>, <<"1", ".", "2", ".", "3">>}
FractionTexts == {<<"+", "2", ".", "5">>, <<"-", "2", ".", "5">>, <<"4", "2", ".", "9">>, <<".", "5">>}
VolumeArgs ==
    {PyStr(s) : s \in SignedTexts \cup BadTexts \cup FractionTexts}
    \cup {PyStr(NatStr(a)) : a \in MinVolume..MaxVolume}
    \cup {PyInt(a) : a \in (MinVolume - MaxDelta)..(MaxVolume + MaxDelta)}

VolumeCall ==
    /\ pc = "idle"
    /\ \E v \in VolumeArgs \cup {PyNone} :
        /\ op' = "volume" /\ value' = v
        /\ IF v = PyNone THEN pc' = "v_get" /\ UNCHANGED <<new_volume, ret, err>>
           ELSE IF IsRelative(v) THEN pc' = "v_read" /\ UNCHANGED <<new_volume, ret, err>>
           ELSE LET f == PyFloorFloat(v) IN
                IF f.exc = "ValueError"
                THEN Fail("AttributeError", VolumeMsg(v)) /\ UNCHANGED new_volume
                ELSE pc' = "v_set" /\ new_volume' = ClampVolume(f.n) /\ UNCHANGED <<ret, err>>
    /\ UNCHANGED <<new_pass, wire_value, max_retries, try_count, old_volume, log>>
    /\ UNCHANGED <<posVars, sendVars, cliVars, hexVars>>

\* volume(): the getter
VolumeGetStep ==
    /\ pc = "v_get"
    /\ \E r \in StatusReplies("vol", VolumeTexts) :
        /\ log' = Append(log, ReadEv(r))
        /\ LET g == VolumeGet(r) IN
           IF g.exc # "" THEN Fail(g.exc, "") ELSE Finish(PyInt(g.n))
    /\ UNCHANGED <<op, value, new_pass, wire_value, max_retries, try_count, old_volume, new_volume>>
    /\ UNCHANGED <<posVars, sendVars, cliVars, hexVars>>

\* the relative branch: self._volume() + int(math.floor(float(value))), left operand first
VolumeReadStep ==
    /\ pc = "v_read"
    /\ \E r \in StatusReplies("vol", VolumeTexts) :
        /\ log' = Append(log, ReadEv(r))
        /\ LET g == VolumeGet(r)
               f == PyFloorFloat(value)
           IN IF g.exc = "ValueError" THEN Fail("AttributeError", VolumeMsg(value)) /\ UNCHANGED new_volume
              ELSE IF g.exc # "" THEN Fail(g.exc, "") /\ UNCHANGED new_volume
              ELSE IF f.exc = "ValueError" THEN Fail("AttributeError", VolumeMsg(value)) /\ UNCHANGED new_volume
              ELSE pc' = "v_set" /\ new_volume' = ClampVolume(g.n + f.n) /\ UNCHANGED <<ret, err>>
    /\ UNCHANGED <<op, value, new_pass, wire_value, max_retries, try_count, old_volume>>
    /\ UNCHANGED <<posVars, sendVars, cliVars, hexVars>>

\* send setPlayerCmd:vol:<new_volume> and require status 200
VolumeSetStep ==
    /\ pc = "v_set"
    /\ \E r \in PlainReplies :
        /\ log' = Append(log, SendEv(VolCmd(new_volume), r))
        /\ IF SetVolumeExc(r) # ""
           THEN Fail(SetVolumeExc(r), "Failed to set volume to '" \o Join(IntStr(new_volume)) \o "'")
           ELSE Finish(PyStr(r.text))
    /\ UNCHANGED <<op, value, new_pass, wire_value, max_retries, try_count, old_volume, new_volume>>
    /\ UNCHANGED <<posVars, sendVars, cliVars, hexVars>>

(***************************************************************************)
(* quiet_reboot                                                            *)
(***************************************************************************)
\* the verification of the minimum volume left out
MinAlwaysSet(read) == FALSE

\* int(self._volume()) != self._quiet_reboot_volume
MinNotSet(read) == read # quiet_reboot_volume

\* the verification of the restored volume left out
AlwaysRestored(old, read) == FALSE

\* old_volume != int(self._volume())
NotRestored(old, read) == old # read

QuietRebootCall ==
    /\ pc = "idle"
    /\ op' = "quiet_reboot" /\ pc' = "q_read_old"
    /\ UNCHANGED <<value, new_pass, wire_value, max_retries, try_count, old_volume, new_volume, log, ret, err>>
    /\ UNCHANGED <<posVars, sendVars, cliVars, hexVars>>

\* old_volume = self._volume()
QuietReadOld ==
    /\ pc = "q_read_old"
    /\ \E r \in StatusReplies("vol", VolumeTexts) :
        /\ log' = Append(log, ReadEv(r))
        /\ LET g == VolumeGet(r) IN
           IF g.exc # "" THEN Fail(g.exc, "") /\ UNCHANGED <<old_volume, new_volume>>
           ELSE /\ old_volume' = g.n
                /\ new_volume' = ClampVolume(PyFloorFloat(PyInt(quiet_reboot_volume)).n)
                /\ pc' = "q_set_min" /\ UNCHANGED <<ret, err>>
    /\ UNCHANGED <<op, value, new_pass, wire_value, max_retries, try_count>>
    /\ UNCHANGED <<posVars, sendVars, cliVars, hexVars>>

\* self._volume(self._quiet_reboot_volume)
QuietSetMin ==
    /\ pc = "q_set_min"
    /\ \E r \in PlainReplies :
        /\ log' = Append(log, SendEv(VolCmd(new_volume), r))
        /\ IF SetVolumeExc(r) # ""
           THEN Fail(SetVolumeExc(r), "Failed to set volume to '" \o Join(IntStr(new_volume)) \o "'")
           ELSE pc' = "q_verify_min" /\ UNCHANGED <<ret, err>>
    /\ UNCHANGED <<op, value, new_pass, wire_value, max_retries, try_count, old_volume, new_volume>>
    /\ UNCHANGED <<posVars, sendVars, cliVars, hexVars>>

\* verify the minimum volume, then enter self._safe_reboot()
QuietVerifyMin ==
    /\ pc = "q_verify_min"
    /\ \E r \in StatusReplies("vol", VolumeTexts) :
        /\ log' = Append(log, ReadEv(r))
        /\ LET g == VolumeGet(r) IN
           IF g.exc # "" THEN Fail(g.exc, "") /\ UNCHANGED <<max_retries, try_count>>
           ELSE IF MinNotSet(g.n)
                THEN /\ Fail("APIException", "Failed to set volume to minimum before quiet reboot")
                     /\ UNCHANGED <<max_retries, try_count>>
                ELSE /\ max_retries' = default_max_retries /\ try_count' = 1
                     /\ IF LoopContinues(1, default_max_retries)
                        THEN pc' = "reboot" /\ UNCHANGED <<ret, err>>
                        ELSE pc' = "q_restore" /\ UNCHANGED <<ret, err>>
    /\ UNCHANGED <<op, value, new_pass, wire_value, old_volume, new_volume>>
    /\ UNCHANGED <<posVars, sendVars, cliVars, hexVars>>

\* self._volume(old_volume)
QuietRestore ==
    /\ pc = "q_restore"
    /\ \E r \in PlainReplies :
        /\ LET nv == ClampVolume(PyFloorFloat(PyInt(old_volume)).n) IN
           /\ new_volume' = nv
           /\ log' = Append(log, SendEv(VolCmd(nv), r))
           /\ IF SetVolumeExc(r) # ""
              THEN Fail(SetVolumeExc(r), "Failed to set volume to '" \o Join(IntStr(nv)) \o "'")
              ELSE pc' = "q_verify_old" /\ UNCHANGED <<ret, err>>
    /\ UNCHANGED <<op, value, new_pass, wire_value, max_retries, try_count, old_volume>>
    /\ UNCHANGED <<posVars, sendVars, cliVars, hexVars>>

\* verify the restored volume and return "OK"
QuietVerifyOld ==
    /\ pc = "q_verify_old"
    /\ \E r \in StatusReplies("vol", VolumeTexts) :
        /\ log' = Append(log, ReadEv(r))
        /\ LET g == VolumeGet(r) IN
           IF g.exc # "" THEN Fail(g.exc, "")
           ELSE IF NotRestored(old_volume, g.n)
                THEN Fail("APIException",
                          "Failed to restore old volume '" \o Join(IntStr(old_volume)) \o "' after reboot")
                ELSE Finish(PyStr(<<"OK">>))
    /\ UNCHANGED <<op, value, new_pass, wire_value, max_retries, try_count, old_volume, new_volume>>
    /\ UNCHANGED <<posVars, sendVars, cliVars, hexVars>>

(***************************************************************************)
(* The enumerated tables of Client.__init__                                *)
(***************************************************************************)
equalizer_modes ==
    (<<"off">> :> 0) @@ (<<"classical">> :> 1) @@ (<<"pop">> :> 2) @@ (<<"jazz">> :> 3) @@ (<<"vocal">> :> 4)

player_modes ==
    (<<"none">> :> 0) @@ (<<"airplay">> :> 1) @@ (<<"dlna">> :> 2) @@ (<<"wiimu">> :> 10)
    @@ (<<"wiimu-local">> :> 11) @@ (<<"wiimu-station">> :> 12) @@ (<<"wiimu-radio">> :> 13)
    @@ (<<"wiimu-songlist">> :> 14) @@ (<<"wiimu-max">> :> 19) @@ (<<"http">> :> 20)
    @@ (<<"http-local">> :> 21) @@ (<<"http-max">> :> 29) @@ (<<"alarm">> :> 30)
    @@ (<<"line-in">> :> 40) @@ (<<"bluetooth">> :> 41) @@ (<<"ext-local">> :> 42)
    @@ (<<"optical">> :> 43) @@ (<<"line-in-max">> :> 49) @@ (<<"mirror">> :> 50)
    @@ (<<"talk">> :> 60) @@ (<<"slave">> :> 99)

\* the text "repeat:<r>:shuffle:<s>"
LoopName(r, sh) == <<"repeat", ":">> \o r \o <<":", "shuffle", ":">> \o sh

loop_modes ==
    (LoopName(<<"off">>, <<"off">>) :> -1) @@ (LoopName(<<"all">>, <<"off">>) :> 0)
    @@ (LoopName(<<"one">>, <<"off">>) :> 1) @@ (LoopName(<<"off">>, <<"on">>) :> 3)
    @@ (LoopName(<<"all">>, <<"on">>) :> 2)

wifi_statuses ==
    (<<"connecting">> :> <<"PROCESS">>) @@ (<<"error-password">> :> <<"PAIRFAIL">>)
    @@ (<<"disconnected">> :> <<"FAIL">>) @@ (<<"connected">> :> <<"ok">>)

auth_types == (<<"off">> :> 0) @@ (<<"psk">> :> 1)

Values(table) == {table[k] : k \in DOMAIN table}
\* {v: k for k, v in table.items()}
Inverse(table) == [v \in Values(table) |-> CHOOSE k \in DOMAIN table : table[k] = v]

\* a lookup's result: the text found, or the exception raised
Found(sq) == [exc |-> "", s |-> sq]
NotFound(kind) == [exc |-> kind, s |-> <<>>]

RECURSIVE Split(_, _)
\* text.split(sep)
Split(sq, sep) ==
    LET seps == {i \in 1..Len(sq) : sq[i] = sep} IN
    IF seps = {} THEN <<sq>>
    ELSE LET i == CHOOSE j \in seps : \A k \in seps : j <= k
         IN <<SubSeq(sq, 1, i - 1)>> \o Split(SubSeq(sq, i + 1, Len(sq)), sep)

\* how the history records a read of a device code
CodeEv(cmd, g) == Ev(cmd, IF g.exc = "" THEN "code" ELSE g.exc, g.n)

(***************************************************************************)
(* _loop, shuffle and repeat                                               *)
(***************************************************************************)
LoopTexts == {IntStr(c) : c \in -2..5} \cup {<<"x">>}

\* int(self._player_info().get('loop'))
LoopCode(r) ==
    IF PlayerInfoExc(r) # "" THEN Raise(PlayerInfoExc(r)) ELSE PyIntOf(DictGet(r, "loop"))

\* _loop(): the name of the code the device reports
LoopGet(r) ==
    LET g == LoopCode(r) IN
    IF g.exc # "" THEN NotFound(g.exc)
    ELSE IF g.n \in DOMAIN Inverse(loop_modes) THEN Found(Inverse(loop_modes)[g.n])
    ELSE NotFound("APIException")

\* _loop(mode): the wire code of the requested mode, or the exception raised before sending
LoopSetValue(m) ==
    LET name == IF m.t = "int" THEN IntStr(m.n) ELSE m.s IN
    IF name \in DOMAIN loop_modes THEN Num(loop_modes[name])
    ELSE LET i == PyIntOf(m) IN
         IF i.exc # "" THEN Raise("APIException")
         ELSE IF i.n \in Values(loop_modes) THEN Num(i.n) ELSE Num(-1)

LoopCmd(n) == "setPlayerCmd:loopmode:" \o Join(IntStr(n))

\* "not value"
Falsy(v) == v.t = "None" \/ (v.t = "str" /\ v.s = <<>>) \/ (v.t = "int" /\ v.n = 0)

\* "off" if (isinstance(value, str) and (value == "off" or value == "0")) or not value
MeansOff(v) == (v.t = "str" /\ (v.s = <<"off">> \/ v.s = <<"0">>)) \/ Falsy(v)

\* shuffle's requested state
ShuffleWord(v) == IF MeansOff(v) THEN <<"off">> ELSE <<"on">>

\* repeat's requested state
RepeatWord(v) ==
    IF v.t = "str" /\ v.s = <<"one">> THEN <<"one">>
    ELSE IF MeansOff(v) THEN <<"off">> ELSE <<"all">>

\* repeat reads the current mode for every requested state
RepeatAlwaysReads(rw) == TRUE

\* repeat: shuffle = "off" if repeat == "one" else self._loop().split(':')[3]
RepeatReads(rw) == rw # <<"one">>

\* shuffle sets the repeat part to "off" whatever the current mode
RepeatPartOff(name) == <<"off">>

\* shuffle: repeat = self._loop().split(':')[1]
RepeatPart(name) == Split(name, ":")[2]

\* repeat: self._loop().split(':')[3]
ShufflePart(name) == Split(name, ":")[4]

\* the mode name shuffle(value) or repeat(value) requests, the device reporting cur
RequestedName(o, v, cur) ==
    IF o = "shuffle" THEN LoopName(RepeatPart(cur), ShuffleWord(v))
    ELSE LoopName(RepeatWord(v), IF RepeatReads(RepeatWord(v)) THEN ShufflePart(cur) ELSE <<"off">>)

\* the getter's answer
CurrentPart(o, cur) == IF o = "shuffle" THEN ShufflePart(cur) ELSE RepeatPart(cur)

LoopArgs == {PyStr(<<w>>) : w \in {"on", "off", "one", "all", "0", "1"}} \cup {PyStr(<<>>), PyNone}

\* _loop(mode): raise before sending, or go on to send the code
EnterLoopMode(m) ==
    LET sv == LoopSetValue(m) IN
    IF sv.exc # ""
    THEN Fail(sv.exc, "Cannot set unknown loop mode '" \o Join(PyStrOf(m)) \o "'") /\ UNCHANGED wire_value
    ELSE pc' = "loop_set" /\ wire_value' = sv.n /\ UNCHANGED <<ret, err>>

\* _loop(name) as shuffle and repeat call it
EnterLoopSet(name) == EnterLoopMode(PyStr(name))

\* the modes _loop is called with directly: numbers, numerals and names, in the table and not
LoopModeArgs ==
    {PyInt(7), PyInt(2), PyStr(<<"7">>), PyStr(<<"2">>), PyStr(<<"x">>),
     PyStr(LoopName(<<"one">>, <<"on">>)), PyStr(LoopName(<<"all">>, <<"on">>))}

\* _loop(mode), the setter called by itself
LoopCall ==
    /\ pc = "idle"
    /\ \E m \in LoopModeArgs :
        /\ op' = "_loop" /\ value' = m
        /\ EnterLoopMode(m)
    /\ UNCHANGED <<new_pass, max_retries, try_count, old_volume, new_volume, log>>
    /\ UNCHANGED <<posVars, sendVars, cliVars, hexVars>>

ShuffleCall ==
    /\ pc = "idle"
    /\ \E v \in LoopArgs :
        /\ op' = "shuffle" /\ value' = v /\ pc' = "loop_read"
    /\ UNCHANGED <<new_pass, wire_value, max_retries, try_count, old_volume, new_volume, log, ret, err>>
    /\ UNCHANGED <<posVars, sendVars, cliVars, hexVars>>

RepeatCall ==
    /\ pc = "idle"
    /\ \E v \in LoopArgs :
        /\ op' = "repeat" /\ value' = v
        /\ IF v = PyNone \/ RepeatReads(RepeatWord(v))
           THEN pc' = "loop_read" /\ UNCHANGED <<wire_value, ret, err>>
           ELSE EnterLoopSet(RequestedName("repeat", v, <<>>))
    /\ UNCHANGED <<new_pass, max_retries, try_count, old_volume, new_volume, log>>
    /\ UNCHANGED <<posVars, sendVars, cliVars, hexVars>>

\* self._loop(): read the current mode, then answer the getter or enter the setter
LoopReadStep ==
    /\ pc = "loop_read"
    /\ \E r \in StatusReplies("loop", LoopTexts) :
        /\ log' = Append(log, CodeEv("getPlayerStatus", LoopCode(r)))
        /\ LET g == LoopGet(r) IN
           IF g.exc # ""
           THEN /\ Fail(g.exc, IF LoopCode(r).exc = "" THEN "Received unknown loop mode value" ELSE "")
                /\ UNCHANGED wire_value
           ELSE IF value = PyNone THEN Finish(PyStr(CurrentPart(op, g.s))) /\ UNCHANGED wire_value
           ELSE EnterLoopSet(RequestedName(op, value, g.s))
    /\ UNCHANGED <<op, value, new_pass, max_retries, try_count, old_volume, new_volume>>
    /\ UNCHANGED <<posVars, sendVars, cliVars, hexVars>>

\* send setPlayerCmd:loopmode:<value>; the status is not looked at
LoopSetStep ==
    /\ pc = "loop_set"
    /\ \E r \in PlainReplies :
        /\ log' = Append(log, SendEv(LoopCmd(wire_value), r))
        /\ IF r.conn THEN Fail("ConnectionException", "Could not connect") ELSE Finish(PyStr(r.text))
    /\ UNCHANGED <<op, value, new_pass, wire_value, max_retries, try_count, old_volume, new_volume>>
    /\ UNCHANGED <<posVars, sendVars, cliVars, hexVars>>

(***************************************************************************)
(* equalizer, source, wifi_status                                          *)
(***************************************************************************)
EqualizerArgs == {PyStr(<<w>>) : w \in {"off", "classical", "pop", "jazz", "vocal", "rock"}} \cup {PyStr(<<>>), PyNone}

EqualizerReplies ==
    {ConnError, TextReply(HTTP_OK, <<"Failed">>), DictReply(HTTP_OK, "", <<>>)}
    \cup {IntReply(st, c) : st \in Statuses, c \in -1..6}

\* self._json_decode(self._send("getEqualizer"))
EqualizerCode(r) ==
    IF r.conn THEN Raise("ConnectionException")
    ELSE IF JsonFails(r) THEN Raise("APIException")
    ELSE IF r.kind # "int" THEN Raise("TypeError")
    ELSE Num(r.n)

\* inverse_eq_modes[value], KeyError raised as APIException
EqualizerName(g) ==
    IF g.exc # "" THEN NotFound(g.exc)
    ELSE IF g.n \in DOMAIN Inverse(equalizer_modes) THEN Found(Inverse(equalizer_modes)[g.n])
    ELSE NotFound("APIException")

EqualizerMsg(v) == "Equalizer mode must be one of [off classical pop jazz vocal], not '" \o Join(v.s) \o "'"

EqualizerCall ==
    /\ pc = "idle"
    /\ \E v \in EqualizerArgs :
        /\ op' = "equalizer" /\ value' = v
        /\ IF v = PyNone THEN pc' = "eq_get" /\ UNCHANGED <<wire_value, ret, err>>
           ELSE IF v.s \notin DOMAIN equalizer_modes
                THEN Fail("AttributeError", EqualizerMsg(v)) /\ UNCHANGED wire_value
                ELSE pc' = "eq_set" /\ wire_value' = equalizer_modes[v.s] /\ UNCHANGED <<ret, err>>
    /\ UNCHANGED <<new_pass, max_retries, try_count, old_volume, new_volume, log>>
    /\ UNCHANGED <<posVars, sendVars, cliVars, hexVars>>

EqualizerGetStep ==
    /\ pc = "eq_get"
    /\ \E r \in EqualizerReplies :
        /\ log' = Append(log, CodeEv("getEqualizer", EqualizerCode(r)))
        /\ LET g == EqualizerName(EqualizerCode(r)) IN
           IF g.exc # ""
           THEN Fail(g.exc, IF EqualizerCode(r).exc = "" THEN "Received unknown equalizer mode value" ELSE "")
           ELSE Finish(PyStr(g.s))
    /\ UNCHANGED <<op, value, new_pass, wire_value, max_retries, try_count, old_volume, new_volume>>
    /\ UNCHANGED <<posVars, sendVars, cliVars, hexVars>>

EqualizerSetStep ==
    /\ pc = "eq_set"
    /\ \E r \in PlainReplies :
        /\ log' = Append(log, SendEv("setPlayerCmd:equalizer:" \o Join(IntStr(wire_value)), r))
        /\ IF r.conn THEN Fail("ConnectionException", "Could not connect")
           ELSE IF r.status # HTTP_OK THEN Fail("APIException", "Failed to set equalizer")
           ELSE Finish(PyStr(r.text))
    /\ UNCHANGED <<op, value, new_pass, wire_value, max_retries, try_count, old_volume, new_volume>>
    /\ UNCHANGED <<posVars, sendVars, cliVars, hexVars>>

ModeTexts == {NatStr(c) : c \in 0..MaxModeCode} \cup {<<"x">>}

\* int(self._player_info().get('mode'))
SourceCode(r) ==
    IF PlayerInfoExc(r) # "" THEN Raise(PlayerInfoExc(r)) ELSE PyIntOf(DictGet(r, "mode"))

\* inverse_player_modes.get(mode)
SourceName(g) ==
    IF g.n \in DOMAIN Inverse(player_modes) THEN PyStr(Inverse(player_modes)[g.n]) ELSE PyNone

SourceCall ==
    /\ pc = "idle"
    /\ \E v \in {PyNone, PyStr(<<"bluetooth">>)} :
        /\ op' = "source" /\ value' = v
        /\ IF v = PyNone THEN pc' = "src_get" /\ UNCHANGED <<ret, err>>
           ELSE Fail("NotImplementedError", "Method source(mode) is not implemented. Try bluetooth(), aux(), etc.")
    /\ UNCHANGED <<new_pass, wire_value, max_retries, try_count, old_volume, new_volume, log>>
    /\ UNCHANGED <<posVars, sendVars, cliVars, hexVars>>

SourceGetStep ==
    /\ pc = "src_get"
    /\ \E r \in StatusReplies("mode", ModeTexts) :
        /\ log' = Append(log, CodeEv("getPlayerStatus", SourceCode(r)))
        /\ LET g == SourceCode(r) IN
           IF g.exc # "" THEN Fail(g.exc, "") ELSE Finish(SourceName(g))
    /\ UNCHANGED <<op, value, new_pass, wire_value, max_retries, try_count, old_volume, new_volume>>
    /\ UNCHANGED <<posVars, sendVars, cliVars, hexVars>>

WifiStatusReplies ==
    {ConnError} \cup {TextReply(st, <<w>>) : st \in Statuses, w \in {"PROCESS", "PAIRFAIL", "FAIL", "ok", "OK", "unknown"}}

\* inverse_wifi_statuses[response], KeyError raised as APIException
WifiStatusName(r) ==
    IF r.conn THEN NotFound("ConnectionException")
    ELSE IF r.text \in DOMAIN Inverse(wifi_statuses) THEN Found(Inverse(wifi_statuses)[r.text])
    ELSE NotFound("APIException")

WifiStatusCall ==
    /\ pc = "idle"
    /\ op' = "wifi_status" /\ pc' = "ws_get"
    /\ UNCHANGED <<value, new_pass, wire_value, max_retries, try_count, old_volume, new_volume, log, ret, err>>
    /\ UNCHANGED <<posVars, sendVars, cliVars, hexVars>>

WifiStatusStep ==
    /\ pc = "ws_get"
    /\ \E r \in WifiStatusReplies :
        /\ log' = Append(log, Ev("wlanGetConnectState", IF r.conn THEN "conn" ELSE Join(r.text), r.status))
        /\ LET g == WifiStatusName(r) IN
           IF g.exc # "" THEN Fail(g.exc, IF r.conn THEN "" ELSE "Received unrecognized wifi status")
           ELSE Finish(PyStr(g.s))
    /\ UNCHANGED <<op, value, new_pass, wire_value, max_retries, try_count, old_volume, new_volume>>
    /\ UNCHANGED <<posVars, sendVars, cliVars, hexVars>>

(***************************************************************************)
(* wifi_auth and preset                                                    *)
(***************************************************************************)
AuthArgs == {PyStr(<<w>>) : w \in {"off", "psk", "wep"}} \cup {PyNone}
PassArgs == {PyNone, PyStr(<<>>), PyStr(<<"secret">>)}

\* the argument of _send: ("setNetwork:"+str(auth_value)+":"+str(new_pass)) if new_pass is not None else ""
AuthCmd(code, pw) ==
    IF pw # PyNone THEN "setNetwork:" \o Join(IntStr(code)) \o ":" \o Join(PyStrOf(pw)) ELSE ""

AuthTypeMsg == "Authentication type must be one of [off, psk]"
AuthPassMsg(v) == "Authentication type '" \o Join(v.s) \o "' requires a non-empty password"

WifiAuthCall ==
    /\ pc = "idle"
    /\ \E v \in AuthArgs, pw \in PassArgs :
        /\ op' = "wifi_auth" /\ value' = v /\ new_pass' = pw
        /\ IF v = PyNone THEN pc' = "auth_get" /\ UNCHANGED <<wire_value, ret, err>>
           ELSE IF v.s \notin DOMAIN auth_types
                THEN Fail("APIException", AuthTypeMsg) /\ UNCHANGED wire_value
                ELSE IF auth_types[v.s] # 0 /\ Falsy(pw)
                     THEN Fail("APIException", AuthPassMsg(v)) /\ UNCHANGED wire_value
                     ELSE pc' = "auth_set" /\ wire_value' = auth_types[v.s] /\ UNCHANGED <<ret, err>>
    /\ UNCHANGED <<max_retries, try_count, old_volume, new_volume, log>>
    /\ UNCHANGED <<posVars, sendVars, cliVars, hexVars>>

\* the getter: the auth fields of _device_info()
WifiAuthGetStep ==
    /\ pc = "auth_get"
    /\ \E r \in StatusReplies("auth", {<<"OPEN">>, <<"WPA2PSK">>}) :
        /\ log' = Append(log, SendEv("getStatus", r))
        /\ IF r.conn THEN Fail("ConnectionException", "Could not connect")
           ELSE IF JsonFails(r) THEN Fail("APIException", "Expected JSON from API")
           ELSE IF r.kind # "dict" THEN Fail("AttributeError", "")
           ELSE Finish(PyStr(IF r.key = "auth" THEN <<"auth", ":">> \o r.val ELSE <<>>))
    /\ UNCHANGED <<op, value, new_pass, wire_value, max_retries, try_count, old_volume, new_volume>>
    /\ UNCHANGED <<posVars, sendVars, cliVars, hexVars>>

WifiAuthSetStep ==
    /\ pc = "auth_set"
    /\ \E r \in PlainReplies :
        /\ log' = Append(log, SendEv(AuthCmd(wire_value, new_pass), r))
        /\ IF r.conn THEN Fail("ConnectionException", "Could not connect") ELSE Finish(PyStr(r.text))
    /\ UNCHANGED <<op, value, new_pass, wire_value, max_retries, try_count, old_volume, new_volume>>
    /\ UNCHANGED <<posVars, sendVars, cliVars, hexVars>>

MinPreset == 1
MaxPreset == 6
PresetMsg == "Preset number must be an integer between 1 and 6, inclusive"

\* _validate_preset(number)
ValidatePreset(v) ==
    LET i == PyIntOf(v) IN
    IF i.exc = "ValueError" THEN Raise("APIException")
    ELSE IF i.exc # "" THEN Raise(i.exc)
    ELSE IF i.n < MinPreset \/ i.n > MaxPreset THEN Raise("APIException")
    ELSE Num(i.n)

PresetArgs ==
    {PyStr(IntStr(n)) : n \in -1..(MaxPreset + 2)} \cup {PyInt(n) : n \in -1..(MaxPreset + 2)}
    \cup {PyStr(<<"x">>), PyStr(<<"2", ".", "5">>), PyStr(<<>>)}

\* preset(number): the uri argument is None
PresetCall ==
    /\ pc = "idle"
    /\ \E v \in PresetArgs :
        /\ op' = "preset" /\ value' = v
        /\ LET p == ValidatePreset(v) IN
           IF p.exc # "" THEN Fail(p.exc, PresetMsg) /\ UNCHANGED wire_value
           ELSE pc' = "preset_send" /\ wire_value' = p.n /\ UNCHANGED <<ret, err>>
    /\ UNCHANGED <<new_pass, max_retries, try_count, old_volume, new_volume, log>>
    /\ UNCHANGED <<posVars, sendVars, cliVars, hexVars>>

PresetSendStep ==
    /\ pc = "preset_send"
    /\ \E r \in PlainReplies :
        /\ log' = Append(log, SendEv("MCUKeyShortClick:" \o Join(IntStr(wire_value)), r))
        /\ IF r.conn THEN Fail("ConnectionException", "Could not connect") ELSE Finish(PyStr(r.text))
    /\ UNCHANGED <<op, value, new_pass, wire_value, max_retries, try_count, old_volume, new_volume>>
    /\ UNCHANGED <<posVars, sendVars, cliVars, hexVars>>

(***************************************************************************)
(* seek, position, back, forward and _position                             *)
(***************************************************************************)
MsPerSecond == 1000
default_skip == 10

MaxLengthMs == 3000     \* the device reports lengths and positions in 0..MaxLengthMs
MaxSeekSecs == 4        \* seek, back and forward are called with -1..MaxSeekSecs seconds

\* int(math.floor(float(x)*1000)); the fractions of the model are exact in binary
PyFloorMs(x) ==
    IF x.t = "int" THEN Num(x.n * MsPerSecond)
    ELSE IF x.t = "None" THEN Raise("TypeError")
    ELSE LET u == Unsigned(x.s)
             dots == {i \in 1..Len(u) : u[i] = "."}
             dot == IF dots = {} THEN Len(u) + 1 ELSE CHOOSE i \in dots : \A j \in dots : i <= j
             ip == SubSeq(u, 1, dot - 1)
             fp == SubSeq(u, dot + 1, Len(u))
             thousandths == DigitsVal(SubSeq(fp \o <<"0", "0", "0">>, 1, 3), 0)
             rest == DigitsVal(SubSeq(fp, 4, Len(fp)), 0)
             ms == DigitsVal(ip, 0) * MsPerSecond + thousandths
         IN IF Cardinality(dots) <= 1 /\ AllDigits(ip) /\ AllDigits(fp) /\ Len(ip) + Len(fp) > 0
            THEN IF SignOf(x.s) = 1 THEN Num(ms)
                 ELSE IF rest > 0 THEN Num(-ms - 1) ELSE Num(-ms)
            ELSE Raise("ValueError")

\* the values the device reports for totlen and curpos
DeviceMs == {l \in 0..MaxLengthMs : l % MsPerSecond \in {0, 1, MsPerSecond - 1}}
MsTexts == {NatStr(l) : l \in DeviceMs} \cup {<<"x">>}

\* int(self._player_info().get(key))
PlayerInt(r, key) ==
    IF PlayerInfoExc(r) # "" THEN Raise(PlayerInfoExc(r)) ELSE PyIntOf(DictGet(r, key))

\* the position passed on with only its upper end clamped
ClampUpperOnly(p, totlen) == Min(totlen, p)

\* max(0, min(totlen_ms, int(newpos_ms)))
ClampPosition(p, totlen) == Max(0, Min(totlen, p))

\* math.floor(newpos_ms / 1000), newpos_ms an int
FloorSeconds(ms) == IF ms >= 0 THEN ms \div MsPerSecond ELSE -((-ms + MsPerSecond - 1) \div MsPerSecond)

SeekCmd(secs) == "setPlayerCmd:seek:" \o Join(IntStr(secs))

\* the history's record of a read of field key
FieldEv(key, g) == Ev("getPlayerStatus", IF g.exc = "" THEN key ELSE g.exc, g.n)

SecondsArgs ==
    {PyStr(IntStr(s)) : s \in -1..MaxSeekSecs} \cup {PyInt(s) : s \in -1..MaxSeekSecs}
    \cup {PyStr(<<"2", ".", "5">>), PyStr(<<"-", ".", "2", "5">>), PyStr(<<"x">>)}

PositionValues == {p \in -MsPerSecond..(MaxLengthMs + MsPerSecond) : p % MsPerSecond \in {0, 1, MsPerSecond - 1}}
PositionArgs ==
    {PyInt(p) : p \in PositionValues} \cup {PyStr(IntStr(p)) : p \in PositionValues}
    \cup {PyStr(<<"1", ".", "5">>), PyNone}

\* seek(val): the argument is converted before _position is entered
SeekCall ==
    /\ pc = "idle"
    /\ \E v \in SecondsArgs :
        /\ op' = "seek" /\ value' = v
        /\ LET f == PyFloorMs(v) IN
           IF f.exc # "" THEN Fail(f.exc, "could not convert string to float") /\ UNCHANGED newpos_ms
           ELSE pc' = "pos_len" /\ newpos_ms' = PyInt(f.n) /\ UNCHANGED <<ret, err>>
    /\ UNCHANGED <<new_pass, wire_value, max_retries, try_count, old_volume, new_volume, log>>
    /\ UNCHANGED <<sendVars, cliVars, hexVars>>

\* position(newpos_ms): the getter when the argument is None
PositionCall ==
    /\ pc = "idle"
    /\ \E v \in PositionArgs :
        /\ op' = "position" /\ value' = v /\ newpos_ms' = v
        /\ pc' = IF v = PyNone THEN "pos_get" ELSE "pos_len"
    /\ UNCHANGED <<new_pass, wire_value, max_retries, try_count, old_volume, new_volume, log, ret, err>>
    /\ UNCHANGED <<sendVars, cliVars, hexVars>>

\* back(val) and forward(val): self._position() is evaluated first
SkipCall ==
    /\ pc = "idle"
    /\ \E o \in {"back", "forward"}, v \in SecondsArgs \cup {PyInt(default_skip)} :
        /\ op' = o /\ value' = v /\ pc' = "pos_cur"
    /\ UNCHANGED <<new_pass, wire_value, max_retries, try_count, old_volume, new_volume, log, ret, err>>
    /\ UNCHANGED <<posVars, sendVars, cliVars, hexVars>>

\* _position(): int(self._player_info().get('curpos'))
PositionGetStep ==
    /\ pc = "pos_get"
    /\ \E r \in StatusReplies("curpos", MsTexts) :
        /\ LET g == PlayerInt(r, "curpos") IN
           /\ log' = Append(log, FieldEv("curpos", g))
           /\ IF g.exc # "" THEN Fail(g.exc, "") ELSE Finish(PyInt(g.n))
    /\ UNCHANGED <<op, value, new_pass, wire_value, max_retries, try_count, old_volume, new_volume>>
    /\ UNCHANGED <<posVars, sendVars, cliVars, hexVars>>

\* back, forward: read the current position, then convert the argument
SkipReadStep ==
    /\ pc = "pos_cur"
    /\ \E r \in StatusReplies("curpos", MsTexts) :
        /\ LET g == PlayerInt(r, "curpos")
               f == PyFloorMs(value)
           IN /\ log' = Append(log, FieldEv("curpos", g))
              /\ IF g.exc # "" THEN Fail(g.exc, "") /\ UNCHANGED newpos_ms
                 ELSE IF f.exc # "" THEN Fail(f.exc, "could not convert string to float") /\ UNCHANGED newpos_ms
                 ELSE /\ newpos_ms' = PyInt(IF op = "back" THEN g.n - f.n ELSE g.n + f.n)
                      /\ pc' = "pos_len" /\ UNCHANGED <<ret, err>>
    /\ UNCHANGED <<op, value, new_pass, wire_value, max_retries, try_count, old_volume, new_volume>>
    /\ UNCHANGED <<sendVars, cliVars, hexVars>>

\* _position(newpos_ms): read the total length, clamp, floor to seconds
PositionLengthStep ==
    /\ pc = "pos_len"
    /\ \E r \in StatusReplies("totlen", MsTexts) :
        /\ LET g == PlayerInt(r, "totlen")
               i == PyIntOf(newpos_ms)
           IN /\ log' = Append(log, FieldEv("totlen", g))
              /\ IF g.exc # "" THEN Fail(g.exc, "") /\ UNCHANGED wire_value
                 ELSE IF i.exc # "" THEN Fail(i.exc, "invalid literal for int()") /\ UNCHANGED wire_value
                 ELSE /\ wire_value' = FloorSeconds(ClampPosition(i.n, g.n))
                      /\ pc' = "pos_seek" /\ UNCHANGED <<ret, err>>
    /\ UNCHANGED <<op, value, new_pass, max_retries, try_count, old_volume, new_volume>>
    /\ UNCHANGED <<posVars, sendVars, cliVars, hexVars>>

\* send setPlayerCmd:seek:<newpos>; the status is not looked at
PositionSeekStep ==
    /\ pc = "pos_seek"
    /\ \E r \in PlainReplies :
        /\ log' = Append(log, SendEv(SeekCmd(wire_value), r))
        /\ IF r.conn THEN Fail("ConnectionException", "Could not connect") ELSE Finish(PyStr(r.text))
    /\ UNCHANGED <<op, value, new_pass, wire_value, max_retries, try_count, old_volume, new_volume>>
    /\ UNCHANGED <<posVars, sendVars, cliVars, hexVars>>

Next ==
    \/ SeekCall \/ PositionCall \/ SkipCall
    \/ PositionGetStep \/ SkipReadStep \/ PositionLengthStep \/ PositionSeekStep
    \/ EqualizerCall \/ EqualizerGetStep \/ EqualizerSetStep
    \/ SourceCall \/ SourceGetStep \/ WifiStatusCall \/ WifiStatusStep
    \/ WifiAuthCall \/ WifiAuthGetStep \/ WifiAuthSetStep
    \/ PresetCall \/ PresetSendStep
    \/ LoopCall \/ ShuffleCall \/ RepeatCall \/ LoopReadStep \/ LoopSetStep
    \/ RebootCall \/ SafeRebootCall \/ RebootStep \/ CheckStep
    \/ QuietRebootCall \/ QuietReadOld \/ QuietSetMin \/ QuietVerifyMin \/ QuietRestore \/ QuietVerifyOld
    \/ VolumeCall \/ VolumeGetStep \/ VolumeReadStep \/ VolumeSetStep
    \/ Return

Spec == Init /\ [][Next]_vars

(***************************************************************************)
(* _hex and _dehex                                                         *)
(*                                                                         *)
(* Here a Python string is the sequence of its code points and a bytes     *)
(* value the sequence of its bytes.                                        *)
(***************************************************************************)
MaxTextLen == 3         \* _hex is given texts of up to MaxTextLen characters
MaxHexLen == 4          \* _dehex is given texts of up to MaxHexLen characters

\* ord(' '), the one whitespace character of the model
SpaceChar == 32
\* ord of "0123456789abcdef"
HexChars == <<48, 49, 50, 51, 52, 53, 54, 55, 56, 57, 97, 98, 99, 100, 101, 102>>
\* ord of "ABCDEF"
UpperHexChars == <<65, 66, 67, 68, 69, 70>>

\* the value of hex digit character c, -1 if c is none
HexVal(c) ==
    IF \E i \in 1..16 : HexChars[i] = c THEN (CHOOSE i \in 1..16 : HexChars[i] = c) - 1
    ELSE IF \E i \in 1..6 : UpperHexChars[i] = c THEN (CHOOSE i \in 1..6 : UpperHexChars[i] = c) + 9
    ELSE -1

\* a conversion's result: a sequence, or the exception raised
Conv(s) == [exc |-> "", s |-> s]
ConvFails(kind) == [exc |-> kind, s |-> <<>>]

RECURSIVE Utf8Encode(_)
\* string.encode(), for code points below 2048
Utf8Encode(s) ==
    IF s = <<>> THEN <<>>
    ELSE LET c == Head(s) IN
         (IF c < 128 THEN <<c>> ELSE <<192 + (c \div 64), 128 + (c % 64)>>) \o Utf8Encode(Tail(s))

\* b is a UTF-8 continuation byte
IsCont(b) == b >= 128 /\ b <= 191

RECURSIVE Utf8Decode(_)
\* bytes.decode(): the code points, or UnicodeDecodeError
Utf8Decode(b) ==
    IF b = <<>> THEN Conv(<<>>)
    ELSE LET b1 == b[1]
             n == IF b1 < 128 THEN 1
                  ELSE IF b1 >= 194 /\ b1 <= 223 THEN 2
                  ELSE IF b1 >= 224 /\ b1 <= 239 THEN 3
                  ELSE IF b1 >= 240 /\ b1 <= 244 THEN 4
                  ELSE 0
             wellFormed ==
                 /\ n > 0 /\ Len(b) >= n
                 /\ \A i \in 2..n : IsCont(b[i])
                 /\ b1 = 224 => b[2] >= 160
                 /\ b1 = 237 => b[2] <= 159
                 /\ b1 = 240 => b[2] >= 144
                 /\ b1 = 244 => b[2] <= 143
             cp == IF n = 1 THEN b1
                   ELSE IF n = 2 THEN (b1 - 192) * 64 + (b[2] - 128)
                   ELSE IF n = 3 THEN (b1 - 224) * 4096 + (b[2] - 128) * 64 + (b[3] - 128)
                   ELSE (b1 - 240) * 262144 + (b[2] - 128) * 4096 + (b[3] - 128) * 64 + (b[4] - 128)
         IN IF ~wellFormed THEN ConvFails("UnicodeDecodeError")
            ELSE LET rest == Utf8Decode(SubSeq(b, n + 1, Len(b))) IN
                 IF rest.exc # "" THEN rest ELSE Conv(<<cp>> \o rest.s)

RECURSIVE FromHex(_)
\* bytearray.fromhex(s): whitespace is skipped before each byte, a byte is two
\* adjacent hex digits; anything else raises ValueError
FromHex(s) ==
    IF s = <<>> THEN Conv(<<>>)
    ELSE IF Head(s) = SpaceChar THEN FromHex(Tail(s))
    ELSE IF Len(s) < 2 \/ HexVal(s[1]) < 0 \/ HexVal(s[2]) < 0 THEN ConvFails("ValueError")
    ELSE LET rest == FromHex(SubSeq(s, 3, Len(s))) IN
         IF rest.exc # "" THEN rest ELSE Conv(<<HexVal(s[1]) * 16 + HexVal(s[2])>> \o rest.s)

RECURSIVE HexBytes(_)
\* "".join("{:02x}".format(c) for c in bytes)
HexBytes(b) ==
    IF b = <<>> THEN <<>>
    ELSE <<HexChars[(Head(b) \div 16) + 1], HexChars[(Head(b) % 16) + 1]>> \o HexBytes(Tail(b))

\* _hex(string): None has no encode()
Hex(x) == IF x.t # "str" THEN ConvFails("AttributeError") ELSE Conv(HexBytes(Utf8Encode(x.s)))

\* _dehex returning what it was given
DehexUnchanged(x) == IF x.t # "str" THEN ConvFails("TypeError") ELSE Conv(x.s)

\* _dehex(hex_string): the decoded text, or hex_string itself on ValueError
\* (UnicodeDecodeError is a ValueError); fromhex(None) raises TypeError
Dehex(x) ==
    IF x.t # "str" THEN ConvFails("TypeError")
    ELSE LET b == FromHex(x.s) IN
         IF b.exc # "" THEN Conv(x.s)
         ELSE LET d == Utf8Decode(b.s) IN IF d.exc # "" THEN Conv(x.s) ELSE d

RECURSIVE TextsOver(_, _)
\* the texts of up to n characters of alphabet
TextsOver(alphabet, n) ==
    IF n = 0 THEN {<<>>}
    ELSE LET shorter == TextsOver(alphabet, n - 1) IN
         shorter \cup {Append(s, c) : s \in shorter, c \in alphabet}

\* ' ', '4', 'A', 'z', '~' and e-acute
TextAlphabet == {32, 52, 65, 122, 126, 233}
HexArgs == {PyStr(s) : s \in TextsOver(TextAlphabet, MaxTextLen)} \cup {PyNone}

\* ' ', '1', '3', '4', '9', 'A', 'a', 'c', 'g'
DehexAlphabet == {32, 49, 51, 52, 57, 65, 97, 99, 103}
DehexArgs == {PyStr(s) : s \in TextsOver(DehexAlphabet, MaxHexLen)} \cup {PyNone}

\* the end of a conversion
Converted(c) == IF c.exc # "" THEN ret' = PyNone /\ err' = Exc(c.exc, "") ELSE ret' = PyStr(c.s) /\ err' = NoErr

\* _hex(string)
HexCall ==
    /\ pc = "idle"
    /\ \E x \in HexArgs :
        /\ op' = "_hex" /\ value' = x /\ pc' = "hexed"
        /\ Converted(Hex(x))
    /\ UNCHANGED <<new_pass, max_retries, try_count, old_volume, new_volume, wire_value, log>>
    /\ UNCHANGED <<posVars, sendVars, cliVars, hexVars>>

\* _dehex(hex_string)
DehexCall ==
    /\ pc = "idle"
    /\ \E x \in DehexArgs :
        /\ op' = "_dehex" /\ hex_string' = x /\ pc' = "done"
        /\ Converted(Dehex(x))
    /\ UNCHANGED <<value, new_pass, max_retries, try_count, old_volume, new_volume, wire_value, log>>
    /\ UNCHANGED <<posVars, sendVars, cliVars>>

\* _dehex(_hex(string))
DehexOfHex ==
    /\ pc = "hexed" /\ err = NoErr
    /\ op' = "_dehex" /\ hex_string' = ret /\ pc' = "done"
    /\ Converted(Dehex(ret))
    /\ UNCHANGED <<value, new_pass, max_retries, try_count, old_volume, new_volume, wire_value, log>>
    /\ UNCHANGED <<posVars, sendVars, cliVars>>

HexReturn ==
    /\ pc \in {"hexed", "done"}
    /\ op' = "idle" /\ pc' = "idle" /\ value' = PyNone /\ hex_string' = PyNone
    /\ ret' = PyNone /\ err' = NoErr
    /\ UNCHANGED <<new_pass, max_retries, try_count, old_volume, new_volume, wire_value, log>>
    /\ UNCHANGED <<posVars, sendVars, cliVars>>

HexNext == HexCall \/ DehexCall \/ DehexOfHex \/ HexReturn

HexSpec == Init /\ [][HexNext]_vars

(***************************************************************************)
(* _send: the inter-command delay, the request, the timestamp              *)
(*                                                                         *)
(* Times are whole milliseconds.  The clock advances while _send sleeps,   *)
(* while a request is under way and between two calls.                     *)
(***************************************************************************)
intercommand_delay == 2000

MaxElapsed == 4100      \* the clock is followed up to StartTime + MaxElapsed
MaxSends == 3           \* the number of requests followed

\* how long the caller may wait between two calls
IdleTimes == {1000, 2000}
\* how much longer than asked time.sleep may sleep
Oversleeps == {0, 1}
\* how long a request may take
RequestTimes == {0, 30}

clientVars == <<value, new_pass, max_retries, try_count, old_volume, new_volume, wire_value, newpos_ms>>

SelfAddress == "A"
AddressOf(c) == IF c = "self" THEN SelfAddress ELSE slave.address
LastCommandTime(c) == IF c = "self" THEN last_command_time ELSE slave.last_command_time

\* _url(command)
Url(c, cmd) == "http://" \o AddressOf(c) \o "/httpapi.asp?command=" \o cmd

\* one request of the history: the client, when it was issued, when it ended, whether it was answered
Attempt(c, issued, ended, r) == [client |-> c, issued |-> issued, ended |-> ended, ok |-> ~r.conn]

\* the timestamp written only when the request succeeded
StampOnSuccess(r, old, t) == IF r.conn THEN old ELSE t

\* finally: self._last_command_time = time.time()
Stamp(r, old, t) == t

\* round(self._intercommand_delay - 1000.0*(t0 - self._last_command_time))
DelayMs(t0, last) == intercommand_delay - (t0 - last)

\* a getStatus body: a JSON object with the fields multiroom_add reads
InfoReply(st, i) ==
    [conn |-> FALSE, status |-> st, kind |-> "dict", text |-> <<"{}">>, n |-> 0, key |-> "info", val |-> <<i>>]

\* the device statuses of the model: ssid and psk are "LP" and "pw" as code points
DeviceInfos ==
    [ssid : {PyStr(<<76, 80>>), PyNone}, WifiChannel : {PyStr(<<"6">>), PyStr(<<"1", "1">>)},
     securemode : {PyStr(<<"1">>), PyStr(<<"0">>), PyNone}, auth : {PyStr(<<"WPA2PSK">>), PyNone},
     encry : {PyStr(<<"AES">>)}, psk : {PyStr(<<112, 119>>)}]

InfoReplies ==
    {ConnError, TextReply(HTTP_OK, <<"Failed">>), IntReply(HTTP_OK, 0)}
    \cup {InfoReply(st, i) : st \in Statuses, i \in DeviceInfos}

\* what the device may answer to command cmd
RepliesTo(cmd) == IF cmd = "getStatus" THEN InfoReplies ELSE PlainReplies

\* _send(cmd) by client c begins
EnterSend(c, cmd) == sender' = c /\ command' = cmd /\ pc' = "send"

\* t0 = time.time(); delay_ms = ...; if delay_ms > 0: sleep
SendBegin ==
    /\ pc = "send"
    /\ delay_ms' = DelayMs(now, LastCommandTime(sender))
    /\ pc' = IF delay_ms' > 0 THEN "sleep" ELSE "request"
    /\ UNCHANGED <<op, log, ret, err, clientVars, cliVars, hexVars>>
    /\ UNCHANGED <<now, last_command_time, session, slave, attempts, sender, command, response, info>>

\* time.sleep(delay_ms / 1000.0)
SendSleep ==
    /\ pc = "sleep"
    /\ \E d \in Oversleeps :
        /\ now + delay_ms + d <= StartTime + MaxElapsed
        /\ now' = now + delay_ms + d
    /\ pc' = "request"
    /\ UNCHANGED <<op, log, ret, err, clientVars, cliVars, hexVars>>
    /\ UNCHANGED <<last_command_time, session, slave, attempts, delay_ms, sender, command, response, info>>

\* the try block and its finally: open the session, issue the request, stamp the time
SendRequest ==
    /\ pc = "request"
    /\ \E r \in RepliesTo(command), e \in RequestTimes :
        /\ now + e <= StartTime + MaxElapsed
        /\ now' = now + e
        /\ attempts' = Append(attempts, Attempt(sender, now, now + e, r))
        /\ log' = Append(log, SendEv(Url(sender, command), r))
        /\ IF sender = "self"
           THEN /\ session' = TRUE
                /\ last_command_time' = Stamp(r, last_command_time, now + e)
                /\ UNCHANGED slave
           ELSE /\ slave' = [slave EXCEPT !.session = TRUE,
                                          !.last_command_time = Stamp(r, slave.last_command_time, now + e)]
                /\ UNCHANGED <<session, last_command_time>>
        /\ IF r.conn
           THEN Fail("ConnectionException", "Could not connect") /\ UNCHANGED response
           ELSE pc' = "respond" /\ response' = r /\ UNCHANGED <<ret, err>>
    /\ UNCHANGED <<op, clientVars, cliVars, hexVars, delay_ms, sender, command, info>>

\* the caller lets time pass between two calls
Tick ==
    /\ pc = "idle"
    /\ \E d \in IdleTimes :
        /\ now + d <= StartTime + MaxElapsed
        /\ now' = now + d
    /\ UNCHANGED <<op, pc, log, ret, err, clientVars, cliVars, hexVars>>
    /\ UNCHANGED <<last_command_time, session, slave, attempts, delay_ms, sender, command, response, info>>

\* the caller gets the result; the client keeps its timestamp and its session
SendReturn ==
    /\ pc = "done"
    /\ op' = "idle" /\ pc' = "idle" /\ value' = PyNone
    /\ log' = <<>> /\ ret' = PyNone /\ err' = NoErr
    /\ slave' = NoSlave /\ delay_ms' = 0 /\ sender' = "self" /\ command' = "" /\ response' = NoResponse
    /\ info' = NoInfo
    /\ UNCHANGED <<new_pass, max_retries, try_count, old_volume, new_volume, wire_value, posVars, cliVars, hexVars>>
    /\ UNCHANGED <<now, last_command_time, session, attempts>>

(***************************************************************************)
(* play, pause, resume, stop, previous, next, mute_on, mute_off            *)
(***************************************************************************)
SimpleCommands ==
    ("play" :> "setPlayerCmd:play") @@ ("pause" :> "setPlayerCmd:pause") @@ ("resume" :> "setPlayerCmd:resume")
    @@ ("stop" :> "setPlayerCmd:stop") @@ ("previous" :> "setPlayerCmd:prev") @@ ("next" :> "setPlayerCmd:next")
    @@ ("mute_on" :> "setPlayerCmd:mute:1") @@ ("mute_off" :> "setPlayerCmd:mute:0")

\* play's uri argument
UriArgs == {PyNone, PyStr(<<>>), PyStr(<<"http", ":", "//", "radio">>)}

\* the command of simple action o called with uri u
SimpleCommand(o, u) ==
    IF o = "play" /\ ~Falsy(u) THEN SimpleCommands[o] \o ":" \o Join(u.s) ELSE SimpleCommands[o]

SimpleCall ==
    /\ pc = "idle" /\ Len(attempts) < MaxSends
    /\ \E o \in DOMAIN SimpleCommands, u \in UriArgs :
        /\ o # "play" => u = PyNone
        /\ op' = o /\ value' = u
        /\ EnterSend("self", SimpleCommand(o, u))
    /\ UNCHANGED <<log, ret, err, new_pass, max_retries, try_count, old_volume, new_volume, wire_value, posVars>>
    /\ UNCHANGED <<now, last_command_time, session, slave, attempts, delay_ms, response, info, cliVars, hexVars>>

\* return self._send(...).content.decode("utf-8"): the status is not looked at
SimpleReturn ==
    /\ pc = "respond" /\ op \in DOMAIN SimpleCommands
    /\ Finish(PyStr(response.text))
    /\ UNCHANGED <<op, log, clientVars, sendVars, cliVars, hexVars>>

(***************************************************************************)
(* multiroom_add and multiroom_master                                      *)
(***************************************************************************)
SlaveAddresses == {"B"}

\* the characters "0123456789abcdef"
HexDigitTexts == <<"0", "1", "2", "3", "4", "5", "6", "7", "8", "9", "a", "b", "c", "d", "e", "f">>
\* the text of a sequence of hex digit code points
HexText(h) == Join([i \in 1..Len(h) |-> HexDigitTexts[HexVal(h[i]) + 1]])

\* the join sent through the first client
SameClient == "self"

\* slave = linkplayctl.Client(slave_ip): the join goes through a new client
SlaveClient == "slave"

\* the arguments multiroom_add passes to multiroom_master
MasterArgs(i) ==
    LET secure == ~Falsy(i.securemode) IN
    [ssid |-> i.ssid, channel |-> i.WifiChannel,
     auth |-> IF secure THEN i.auth ELSE PyStr(<<"OPEN">>),
     encryption |-> IF secure THEN i.encry ELSE PyStr(<<>>),
     psk |-> IF secure THEN i.psk ELSE PyStr(<<>>)]

\* the exception raised while multiroom_master builds its command, "" if none:
\* the operands are evaluated and added from left to right
MasterExc(a) ==
    IF Hex(a.ssid).exc # "" THEN Hex(a.ssid).exc
    ELSE IF a.auth.t # "str" \/ a.encryption.t # "str" THEN "TypeError"
    ELSE Hex(a.psk).exc

\* multiroom_master's command
MasterCmd(a) ==
    "ConnectMasterAp:ssid=" \o HexText(Hex(a.ssid).s) \o ":ch=" \o Join(PyStrOf(a.channel))
        \o ":auth=" \o Join(a.auth.s) \o ":encry=" \o Join(a.encryption.s)
        \o ":pwd=" \o HexText(Hex(a.psk).s) \o ":chext=0"

MultiroomAddCall ==
    /\ pc = "idle" /\ Len(attempts) + 1 < MaxSends
    /\ \E ip \in SlaveAddresses :
        /\ op' = "multiroom_add" /\ value' = PyStr(<<ip>>)
        /\ EnterSend("self", "getStatus")
    /\ UNCHANGED <<log, ret, err, new_pass, max_retries, try_count, old_volume, new_volume, wire_value, posVars>>
    /\ UNCHANGED <<now, last_command_time, session, slave, attempts, delay_ms, response, info, cliVars, hexVars>>

\* what multiroom_add does with the status reply r for slave_ip: the exception it ends with
\* ("" if it goes on to the join), info and slave as far as they were assigned, and the command
MultiroomOutcome(r, slave_ip) ==
    LET created == [address |-> Join(slave_ip.s), last_command_time |-> 0, session |-> FALSE]
        a == MasterArgs(r.val[1])
    IN IF JsonFails(r)
       THEN [exc |-> Exc("APIException", "Expected JSON from API"), info |-> NoInfo, slave |-> NoSlave, cmd |-> ""]
       ELSE IF r.kind # "dict"
       THEN [exc |-> Exc("AttributeError", ""), info |-> NoInfo, slave |-> NoSlave, cmd |-> ""]
       ELSE IF MasterExc(a) # ""
       THEN [exc |-> Exc(MasterExc(a), ""), info |-> r.val[1], slave |-> created, cmd |-> ""]
       ELSE [exc |-> NoErr, info |-> r.val[1], slave |-> created, cmd |-> MasterCmd(a)]

\* info = self._device_info(); the arguments; the new client; multiroom_master up to its _send
MultiroomInfoStep ==
    /\ pc = "respond" /\ op = "multiroom_add" /\ Len(log) = 1
    /\ LET o == MultiroomOutcome(response, value) IN
        /\ info' = o.info /\ slave' = o.slave
        /\ pc' = IF o.exc = NoErr THEN "send" ELSE "done"
        /\ sender' = IF o.exc = NoErr THEN SlaveClient ELSE sender
        /\ command' = IF o.exc = NoErr THEN o.cmd ELSE command
        /\ ret' = ret /\ err' = o.exc
    /\ UNCHANGED <<op, log, clientVars, cliVars, hexVars>>
    /\ UNCHANGED <<now, last_command_time, session, attempts, delay_ms, response>>

\* return slave.multiroom_master(*args)
MultiroomReturn ==
    /\ pc = "respond" /\ op = "multiroom_add" /\ Len(log) = 2
    /\ Finish(PyStr(response.text))
    /\ UNCHANGED <<op, log, clientVars, sendVars, cliVars, hexVars>>

SendNext ==
    \/ MultiroomAddCall \/ MultiroomInfoStep \/ MultiroomReturn
    \/ SimpleCall \/ SimpleReturn \/ SendBegin \/ SendSleep \/ SendRequest \/ Tick \/ SendReturn

SendSpec == Init /\ [][SendNext]_vars

(***************************************************************************)
(* main.py: command resolution and dispatch                                *)
(***************************************************************************)
MaxWords == 3           \* the number of command words on the command line

\* the words of the model: a word is a sequence of atoms, a hyphen is an atom of its own
CliWords ==
    {<<"play">>, <<"multiroom">>, <<"add">>, <<"mute", "-", "on">>, <<"B">>, <<"line", "-", "in">>,
     <<"api", "-", "status", "-", "code">>}

\* args.commands: nargs='+' gives at least one word
CommandLines == UNION {[1..k -> CliWords] : k \in 1..MaxWords}

RECURSIVE JoinWords(_)
\* '_'.join(cur_command_words)
JoinWords(ws) ==
    IF ws = <<>> THEN <<>>
    ELSE IF Len(ws) = 1 THEN ws[1]
    ELSE ws[1] \o <<"_">> \o JoinWords(Tail(ws))

\* command_phrase.replace("-", "_")
ReplaceHyphens(p) == [i \in 1..Len(p) |-> IF p[i] = "-" THEN "_" ELSE p[i]]

\* command_phrase
CommandPhrase(ws) == Join(ReplaceHyphens(JoinWords(ws)))

\* the attributes of the client whose names the words of the model can spell: whether the
\* attribute can be called, and the fewest and the most positional arguments it takes
ClientAttributes ==
    ("play" :> [callable |-> TRUE, min |-> 0, max |-> 1])
    @@ ("mute_on" :> [callable |-> TRUE, min |-> 0, max |-> 0])
    @@ ("multiroom_add" :> [callable |-> TRUE, min |-> 1, max |-> 1])
    @@ ("api_status_code" :> [callable |-> FALSE, min |-> 0, max |-> 0])

\* hasattr(client, command_phrase)
HasAttr(p) == p \in DOMAIN ClientAttributes

\* the removed word put behind the arguments
Appended(arguments, w) == Append(arguments, w)

\* cur_arguments.insert(0, new_argument)
Uncurried(arguments, w) == <<w>> \o arguments

\* only connection errors reported
ExitCodeOfConnection(e) == IF e.kind = "ConnectionException" THEN 1 ELSE 0

\* sys.exit(1) in the except branch, sys.exit(0) after the print
ExitCode(e) == IF e = NoErr THEN 0 ELSE 1

\* attribute(*cur_arguments) raises TypeError before the method body runs
CallRejected(name, arguments) ==
    LET a == ClientAttributes[name] IN
    ~a.callable \/ Len(arguments) < a.min \/ Len(arguments) > a.max

\* the process starts: cur_command_words = list(args.commands); cur_arguments = []
CliStart ==
    /\ pc = "idle" /\ exit_code = -1
    /\ \E c \in CommandLines :
        /\ commands' = c /\ cur_command_words' = c /\ cur_arguments' = <<>>
    /\ pc' = "resolve"
    /\ UNCHANGED <<op, log, ret, err, exit_code, clientVars, sendVars, hexVars>>

\* no word is left: sys.exit(2)
CliUnknown ==
    /\ pc = "resolve" /\ Len(cur_command_words) < 1
    /\ exit_code' = 2 /\ pc' = "exited"
    /\ UNCHANGED <<op, log, ret, err, commands, cur_command_words, cur_arguments, clientVars, sendVars, hexVars>>

\* the phrase is no attribute: the last word becomes the first argument
CliUncurry ==
    /\ pc = "resolve" /\ Len(cur_command_words) >= 1
    /\ ~HasAttr(CommandPhrase(cur_command_words))
    /\ cur_command_words' = SubSeq(cur_command_words, 1, Len(cur_command_words) - 1)
    /\ cur_arguments' = Uncurried(cur_arguments, cur_command_words[Len(cur_command_words)])
    /\ UNCHANGED <<op, pc, log, ret, err, commands, exit_code, clientVars, sendVars, hexVars>>

\* the phrase is an attribute: break
CliFound ==
    /\ pc = "resolve" /\ Len(cur_command_words) >= 1
    /\ HasAttr(CommandPhrase(cur_command_words))
    /\ pc' = "call"
    /\ UNCHANGED <<op, log, ret, err, cliVars, clientVars, sendVars, hexVars>>

\* attribute = getattr(client, command_phrase); attribute(*cur_arguments), up to its first _send
CliCall ==
    /\ pc = "call"
    /\ LET name == CommandPhrase(cur_command_words)
           u == IF cur_arguments = <<>> THEN PyNone ELSE PyStr(cur_arguments[1])
       IN /\ op' = name
          /\ IF CallRejected(name, cur_arguments)
             THEN Fail("TypeError", "") /\ UNCHANGED <<value, sender, command>>
             ELSE /\ value' = u
                  /\ EnterSend("self", IF name = "multiroom_add" THEN "getStatus" ELSE SimpleCommand(name, u))
                  /\ UNCHANGED <<ret, err>>
    /\ UNCHANGED <<log, new_pass, max_retries, try_count, old_volume, new_volume, wire_value, posVars>>
    /\ UNCHANGED <<now, last_command_time, session, slave, attempts, delay_ms, response, info, cliVars, hexVars>>

\* the except branch or the print, then sys.exit
CliExit ==
    /\ pc = "done" /\ commands # <<>> /\ exit_code = -1
    /\ exit_code' = ExitCode(err) /\ pc' = "exited"
    /\ UNCHANGED <<op, log, ret, err, commands, cur_command_words, cur_arguments, clientVars, sendVars, hexVars>>

\* a new process sends its first command without sleeping, and so does the client that
\* multiroom_add creates: SendSleep has no part here
CliNext ==
    \/ CliStart \/ CliUnknown \/ CliUncurry \/ CliFound \/ CliCall \/ CliExit
    \/ SendBegin \/ SendRequest \/ SimpleReturn \/ MultiroomInfoStep \/ MultiroomReturn

CliSpec == Init /\ [][CliNext]_vars

(***************************************************************************)
(* Properties                                                              *)
(***************************************************************************)
Done(o) == op = o /\ pc = "done"
OK == PyStr(<<"OK">>)

\* the results of the liveness probes of this call, in order
ProbeIdx == {i \in 1..Len(log) : log[i].what \in {"alive", "dead"}}
Probes == Cardinality(ProbeIdx)
\* the number of probes up to and including the first that succeeded, 0 if none did
FirstAlive ==
    IF \E i \in ProbeIdx : log[i].what = "alive"
    THEN LET f == CHOOSE i \in ProbeIdx : log[i].what = "alive" /\ \A j \in ProbeIdx : log[j].what = "alive" => i <= j
         IN Cardinality({j \in ProbeIdx : j <= f})
    ELSE 0
\* every reboot command of this call was answered with status 200 and body "OK"
RebootsAccepted == \A i \in 1..Len(log) : log[i].cmd = "reboot" => log[i].what = "accepted"

\* C1: safe_reboot(N), N >= 0, every reboot command being accepted: if the probe of
\* attempt k is the first to succeed, exactly k <= N+1 reboot commands were sent and
\* "OK" is returned; if no probe succeeds, exactly N+1 reboot commands were sent and
\* the call fails.  "OK" is returned in no other case.
C1_SafeRebootCounts ==
    /\ (Done("safe_reboot") /\ max_retries >= 0 /\ RebootsAccepted) =>
            IF FirstAlive > 0
            THEN /\ Reboots = FirstAlive /\ Probes = FirstAlive
                 /\ FirstAlive <= max_retries + 1
                 /\ ret = OK /\ err = NoErr
            ELSE /\ Reboots = max_retries + 1 /\ Probes = max_retries + 1
                 /\ ret # OK /\ err.kind = "APIException"
    /\ (Done("safe_reboot") /\ max_retries >= 0 /\ ret = OK) =>
            (RebootsAccepted /\ FirstAlive > 0 /\ Reboots = FirstAlive)

C1_Witness ==
    /\ Done("safe_reboot") /\ max_retries = 2 /\ ret = OK
    /\ [i \in 1..Len(log) |-> log[i].what] = <<"accepted", "dead", "accepted", "dead", "accepted", "alive">>

\* C2: when safe_reboot(N) gives up, the message of its APIException reports the
\* number of reboot attempts made, N+1.
C2_ReportsAttemptsMade ==
    (Done("safe_reboot") /\ max_retries >= 0 /\ err.kind = "APIException") =>
        /\ Reboots = max_retries + 1
        /\ err.msg = "Failed to bring device back up after " \o Join(IntStr(Reboots))
                        \o " reboot attempts. Giving up."

\* C3: with an unlimited bound (max_retries < 0) safe_reboot never gives up: it
\* never ends with the APIException of exhausted retries.
C3_UnlimitedNeverGivesUp ==
    (Done("safe_reboot") /\ max_retries < 0) => err.kind # "APIException"

\* C4: in quiet_reboot, once the volume read back after setting the minimum
\* differs from the minimum, the call has failed with APIException and its history
\* holds no reboot command, now or later.
C4_NoRebootUnlessQuiet ==
    (op = "quiet_reboot" /\ Len(log) >= 3 /\ log[3].what = "vol" /\ log[3].n # quiet_reboot_volume) =>
        /\ pc = "done" /\ err.kind = "APIException" /\ ret # OK
        /\ Reboots = 0 /\ Len(log) = 3

C4_Witness ==
    /\ Done("quiet_reboot") /\ Len(log) = 3
    /\ log[1] = Ev("getPlayerStatus", "vol", 50)
    /\ log[2] = Ev("setPlayerCmd:vol:1", "sent", 200)
    /\ log[3] = Ev("getPlayerStatus", "vol", 50)
    /\ err.kind = "APIException"

\* the history of a completed quiet reboot that saved volume v
QuietOrder(v) ==
    LET n == Len(log) IN
    /\ n >= 7
    /\ log[1] = Ev("getPlayerStatus", "vol", v)
    /\ log[2] = Ev("setPlayerCmd:vol:" \o Join(IntStr(quiet_reboot_volume)), "sent", 200)
    /\ log[3] = Ev("getPlayerStatus", "vol", quiet_reboot_volume)
    /\ \A i \in 4..(n - 2) :
        IF i % 2 = 0 THEN log[i] = Ev("reboot", "accepted", 200)
        ELSE log[i].cmd = "getPlayerStatus" /\ log[i].what = (IF i = n - 2 THEN "alive" ELSE "dead")
    /\ (n - 2) % 2 = 1
    /\ log[n - 1] = Ev("setPlayerCmd:vol:" \o Join(IntStr(v)), "sent", 200)
    /\ log[n] = Ev("getPlayerStatus", "vol", v)

\* a quiet reboot whose history ends with the read that follows the restoring set
ReadAfterRestore ==
    /\ Done("quiet_reboot") /\ Len(log) >= 7
    /\ log[Len(log)].what = "vol"
    /\ log[Len(log) - 1].what = "sent" /\ log[Len(log) - 1].n = 200 /\ log[Len(log) - 2].what = "alive"

\* C5: quiet_reboot returns "OK" only after: read volume v, set the quiet volume,
\* read the quiet volume, verified reboot succeeded, set volume v, read volume v;
\* when the last read differs from v it fails with APIException.
C5_QuietOrder ==
    /\ (Done("quiet_reboot") /\ ret = OK) => (err = NoErr /\ QuietOrder(old_volume))
    /\ (ReadAfterRestore /\ log[Len(log)].n # log[1].n) => (err.kind = "APIException" /\ ret # OK)

C5_Witness ==
    /\ Done("quiet_reboot") /\ ret = OK /\ old_volume = 37 /\ Len(log) = 9
    /\ log[5].what = "dead" /\ log[7].what = "alive"
    /\ log[8].cmd = "setPlayerCmd:vol:37" /\ log[9] = Ev("getPlayerStatus", "vol", 37)

\* clamp(n, 0, 100), written out
Clamp100(n) == IF n < 0 THEN 0 ELSE IF n > 100 THEN 100 ELSE n
\* the signed text of delta sg m, e.g. "+5"
DeltaText(sg, m) == PyStr(<<sg>> \o NatStr(m))
DeltaOf(sg, m) == IF sg = "-" THEN -m ELSE m

\* C6: volume with the signed delta text d, the device reporting volume c, sends
\* after that read the one set command setPlayerCmd:vol:clamp(c+d, 0, 100);
\* volume with the absolute number a sends the one command
\* setPlayerCmd:vol:clamp(a, 0, 100) and reads nothing; "+5" at 97 sends vol:100.
C6_VolumeClamped ==
    /\ (op = "volume" /\ IsRelative(value) /\ Len(log) >= 1 /\ log[1].what = "vol") =>
        \A sg \in {value.s[1]}, m \in 0..MaxDelta :
            value = DeltaText(sg, m) =>
                /\ log[1].cmd = "getPlayerStatus" /\ log[1].n \in 0..100
                /\ \/ pc = "v_set" /\ Len(log) = 1
                   \/ pc = "done" /\ Len(log) = 2
                /\ Len(log) = 2 =>
                    log[2].cmd = "setPlayerCmd:vol:" \o Join(IntStr(Clamp100(log[1].n + DeltaOf(sg, m))))
    /\ (op = "volume" /\ value.t = "int") =>
        /\ \/ pc = "v_set" /\ Len(log) = 0
           \/ pc = "done" /\ Len(log) = 1
        /\ Len(log) = 1 => log[1].cmd = "setPlayerCmd:vol:" \o Join(IntStr(Clamp100(value.n)))
    /\ (op = "volume" /\ value.t = "str" /\ ~IsRelative(value) /\ \E a \in 0..100 : value.s = NatStr(a)) =>
        /\ \/ pc = "v_set" /\ Len(log) = 0
           \/ pc = "done" /\ Len(log) = 1
        /\ Len(log) = 1 => log[1].cmd = "setPlayerCmd:vol:" \o Join(value.s)
    /\ (Done("volume") /\ value = PyStr(<<"+", "5">>) /\ Len(log) = 2 /\ log[1] = Ev("getPlayerStatus", "vol", 97)) =>
        (log[2].cmd = "setPlayerCmd:vol:100" /\ log[2].cmd # "setPlayerCmd:vol:102")

C6_Witness ==
    /\ Done("volume") /\ value = PyStr(<<"+", "5">>)
    /\ Sent = <<"getPlayerStatus", "setPlayerCmd:vol:100">>
    /\ log[1].n = 97 /\ ret = OK

\* C7: when volume, equalizer, wifi_auth or preset rejects the caller's argument
\* (an unparseable volume, absolute or signed; an unknown equalizer mode; an unknown
\* auth type; a preset outside 1..6), no request has been sent during the call.
C7_RejectedBeforeSend ==
    (/\ pc = "done"
     /\ \/ op = "volume" /\ value.t = "str" /\ value.s \in BadTexts
              /\ err = Exc("AttributeError", VolumeMsg(value))
        \/ op = "equalizer" /\ value.t = "str" /\ err = Exc("AttributeError", EqualizerMsg(value))
              /\ value.s \notin {<<"off">>, <<"classical">>, <<"pop">>, <<"jazz">>, <<"vocal">>}
        \/ op = "wifi_auth" /\ value.t = "str" /\ value.s \notin {<<"off">>, <<"psk">>}
              /\ err = Exc("APIException", AuthTypeMsg)
        \/ op = "preset" /\ err = Exc("APIException", PresetMsg))
    => log = <<>>

\* the codes of the tables, written out
EqCodes == {0, 1, 2, 3, 4}
SourceCodes == {0, 1, 2, 10, 11, 12, 13, 14, 19, 20, 21, 29, 30, 40, 41, 42, 43, 49, 50, 60, 99}
WifiCodes == {"PROCESS", "PAIRFAIL", "FAIL", "ok"}
LoopTable ==
    {[code |-> -1, rep |-> "off", shuf |-> "off"], [code |-> 0, rep |-> "all", shuf |-> "off"],
     [code |-> 1, rep |-> "one", shuf |-> "off"], [code |-> 3, rep |-> "off", shuf |-> "on"],
     [code |-> 2, rep |-> "all", shuf |-> "on"]}
LoopCodes == {m.code : m \in LoopTable}

\* the call read a device code as its first request
ReadCode == Len(log) >= 1 /\ log[1].what = "code"

\* C8: equalizer(), source(), the loop-mode getter and wifi_status() fail with
\* APIException whenever the device's code is not in the table; none of them
\* returns a value for such a code.
C8_UnknownCodeIsAPIError ==
    /\ (Done("equalizer") /\ ReadCode /\ log[1].n \notin EqCodes) => (err.kind = "APIException" /\ ret = PyNone)
    /\ (Done("source") /\ ReadCode /\ log[1].n \notin SourceCodes) => (err.kind = "APIException" /\ ret = PyNone)
    /\ (op \in {"shuffle", "repeat"} /\ pc = "done" /\ ReadCode /\ log[1].n \notin LoopCodes) =>
            (err.kind = "APIException" /\ ret = PyNone)
    /\ (Done("wifi_status") /\ log[1].what # "conn" /\ log[1].what \notin WifiCodes) =>
            (err.kind = "APIException" /\ ret = PyNone)

\* C9: repeat("one") reads nothing and sends the one command setPlayerCmd:loopmode:1,
\* the code of repeat:one:shuffle:off, whatever the device's current loop mode.
C9_RepeatOneForcesShuffleOff ==
    (op = "repeat" /\ value = PyStr(<<"one">>)) =>
        \/ pc = "loop_set" /\ log = <<>> /\ wire_value = 1
        \/ pc = "done" /\ Len(log) = 1 /\ log[1].cmd = "setPlayerCmd:loopmode:1"
                       /\ (err = NoErr \/ err.kind = "ConnectionException")

C9_Witness ==
    /\ Done("repeat") /\ value = PyStr(<<"one">>)
    /\ Sent = <<"setPlayerCmd:loopmode:1">> /\ ret = OK

\* the table entry of the code the call read
CurrentMode == CHOOSE m \in LoopTable : m.code = log[1].n
\* the call sent, as its second request, the code of repeat r with shuffle sh
SentMode(r, sh) ==
    /\ Len(log) = 2
    /\ \E m \in LoopTable : m.rep = r /\ m.shuf = sh /\ log[2].cmd = "setPlayerCmd:loopmode:" \o Join(IntStr(m.code))
\* a setter call that ended after reading a valid current loop mode
SetterRead(o, words) ==
    /\ Done(o) /\ value.t = "str" /\ value.s \in words
    /\ ReadCode /\ log[1].n \in LoopCodes

\* C10 as stated: for every valid current mode, shuffle(on|off) sends the code that
\* keeps the current repeat state and repeat(all|off) sends the code that keeps the
\* current shuffle state.
C10_AxisPreserved ==
    /\ SetterRead("shuffle", {<<"on">>, <<"off">>}) => SentMode(CurrentMode.rep, value.s[1])
    /\ SetterRead("repeat", {<<"all">>, <<"off">>}) => SentMode(value.s[1], CurrentMode.shuf)

\* C10, amended: as stated, except for shuffle("on") while repeat is "one", which
\* fails with APIException and sends no loop-mode command; shuffle("on") while
\* repeat is "all" sends the code of repeat:all:shuffle:on.
C10_AxisPreservedButOneOn ==
    /\ SetterRead("shuffle", {<<"on">>, <<"off">>}) =>
        IF CurrentMode.rep = "one" /\ value.s = <<"on">>
        THEN err.kind = "APIException" /\ Len(log) = 1
        ELSE SentMode(CurrentMode.rep, value.s[1])
    /\ SetterRead("repeat", {<<"all">>, <<"off">>}) => SentMode(value.s[1], CurrentMode.shuf)
    /\ (SetterRead("shuffle", {<<"on">>}) /\ log[1].n = 0) => log[2].cmd = "setPlayerCmd:loopmode:2"

C10_Witness ==
    /\ Done("shuffle") /\ value = PyStr(<<"on">>)
    /\ log[1] = Ev("getPlayerStatus", "code", 0)
    /\ Sent = <<"getPlayerStatus", "setPlayerCmd:loopmode:2">> /\ ret = OK

\* the simple actions
SimpleOps == {"play", "pause", "resume", "stop", "previous", "next", "mute_on", "mute_off"}
\* a simple action ended after the device answered its request
SimpleAnswered == op \in SimpleOps /\ pc = "done" /\ Len(log) = 1 /\ log[1].what = "sent"

\* C11: a simple action whose request the device answers with a status other than
\* 200 fails with APIException and returns nothing; answered with status 200 it
\* returns the decoded body.
C11_SimpleRequires200 ==
    SimpleAnswered =>
        IF log[1].n = 200
        THEN err = NoErr /\ ret.t = "str" /\ ret.s \in {<<"OK">>, <<"Failed">>}
        ELSE err.kind = "APIException" /\ ret = PyNone

\* C12: reboot() sends exactly one reboot command; it returns "OK" exactly when the
\* response has status 200 and body "OK"; for any other status or body it raises
\* APIException.
C12_RebootRaisesAPIError ==
    Done("reboot") =>
        /\ Sent = <<"reboot">>
        /\ (ret = OK) <=> (log[1].what = "accepted")
        /\ (log[1].what = "rejected") => (err.kind = "APIException")

\* the operations that end in _position(newpos_ms)
PositionOps == {"seek", "position", "back", "forward"}
\* the call sent its seek command right after reading the total length
SeekSent ==
    /\ op \in PositionOps /\ pc = "done" /\ Len(log) >= 2
    /\ log[Len(log) - 1].what = "totlen" /\ log[Len(log)].what \in {"sent", "conn"}
\* the caller's argument is the whole number n, as an int or as its decimal text
ArgIs(n) == value = PyInt(n) \/ (value.t = "str" /\ value.s = IntStr(n))
\* the milliseconds the caller's argument in seconds stands for (none or one)
ArgMs ==
    {s * 1000 : s \in {n \in (-1..MaxSeekSecs) \cup {10} : ArgIs(n)}}
    \cup (IF value = PyStr(<<"2", ".", "5">>) THEN {2500} ELSE {})
    \cup (IF value = PyStr(<<"-", ".", "2", "5">>) THEN {-250} ELSE {})
\* the position requested, in ms (none or one): seek(s) asks for s*1000,
\* position(p) for p, back(s) and forward(s) for the position read minus/plus s*1000
Requested ==
    IF op = "seek" THEN ArgMs
    ELSE IF op = "position" THEN {p \in PositionValues : ArgIs(p)}
    ELSE IF Len(log) = 3 /\ log[1].what = "curpos"
         THEN {(IF op = "back" THEN log[1].n - d ELSE log[1].n + d) : d \in ArgMs}
         ELSE {}
\* clamp(p, 0, L), written out
ClampTo(p, L) == IF p < 0 THEN 0 ELSE IF p > L THEN L ELSE p

\* C13: when seek, position, back or forward sends its seek command after reading
\* the total length L, the requested position being p ms, the command is
\* setPlayerCmd:seek:floor(clamp(p, 0, L) / 1000), and it is the call's only command
\* besides the reads.
C13_SeekClamped ==
    SeekSent =>
        /\ Requested # {}
        /\ \A p \in Requested :
            log[Len(log)].cmd = "setPlayerCmd:seek:" \o Join(NatStr(ClampTo(p, log[Len(log) - 1].n) \div 1000))
        /\ \A i \in 1..(Len(log) - 1) : log[i].cmd = "getPlayerStatus"
        /\ Len(log) = (IF op \in {"back", "forward"} THEN 3 ELSE 2)

C13_Witness ==
    /\ Done("forward") /\ value = PyStr(<<"2">>) /\ ret = OK
    /\ log[1] = Ev("getPlayerStatus", "curpos", 2001)
    /\ log[2] = Ev("getPlayerStatus", "totlen", 3000)
    /\ log[3].cmd = "setPlayerCmd:seek:3"

\* the requests of the first client, in the order issued
SelfAttempts == SelectSeq(attempts, LAMBDA a : a.client = "self")

\* C14: every request of a client is issued no earlier than the inter-command delay
\* after the end of its previous request, whether that one was answered or failed
\* with a connection error; the client's timestamp is the end of its last request.
C14_Throttled ==
    /\ \A i \in 1..(Len(SelfAttempts) - 1) :
            SelfAttempts[i + 1].issued >= SelfAttempts[i].ended + intercommand_delay
    /\ SelfAttempts # <<>> => last_command_time = SelfAttempts[Len(SelfAttempts)].ended

C14_Witness ==
    /\ Len(SelfAttempts) = 2 /\ ~SelfAttempts[1].ok
    /\ SelfAttempts[2].issued = SelfAttempts[1].ended + intercommand_delay
    /\ SelfAttempts[2].issued < now

\* the text given to _dehex is a hex string: an even, positive number of characters,
\* each one of 0-9, a-f, A-F
IsHexString(s) ==
    /\ Len(s) > 0 /\ Len(s) % 2 = 0
    /\ \A i \in 1..Len(s) : s[i] \in (48..57) \cup (97..102) \cup (65..70)
\* every character of s is printable ASCII
IsPrintable(s) == \A i \in 1..Len(s) : s[i] \in 32..126
\* a call of _dehex on a string has ended
Dehexed == op = "_dehex" /\ pc = "done" /\ hex_string.t = "str"
\* the call decoded the hex encoding of the string in value
RoundTrip == Dehexed /\ value.t = "str"

HexDigitCount(s) == Cardinality({i \in 1..Len(s) : s[i] \in (48..57) \cup (97..102) \cup (65..70)})
\* s has a character that is neither a hex digit nor a space
HasOtherChar(s) == \E i \in 1..Len(s) : s[i] \notin (48..57) \cup (97..102) \cup (65..70) \cup {32}

JoinTails == {":auth=OPEN:encry=:pwd=:chext=0", ":auth=WPA2PSK:encry=AES:pwd=7077:chext=0"}
JoinHead(ip, i) ==
    "http://" \o ip \o "/httpapi.asp?command=ConnectMasterAp:ssid=4c50:ch="
        \o (IF i.WifiChannel.s = <<"6">> THEN "6" ELSE "11")
StatusQuery == "http://A/httpapi.asp?command=getStatus"
JoinAttempt == attempts[Len(attempts)]
QueryAttempt == attempts[Len(attempts) - 1]
C18_MultiroomAdd ==
    op = "multiroom_add" =>
        /\ Len(log) <= 2
        /\ pc \in {"respond", "done"} => Len(log) >= 1
        /\ Len(log) >= 1 => log[1].cmd = StatusQuery
        /\ Len(log) = 2 =>
            /\ log[1].what = "sent"
            /\ Join(value.s) # SelfAddress
            /\ \E tail \in JoinTails : log[2].cmd = JoinHead(Join(value.s), info) \o tail
            /\ info.ssid = PyStr(<<76, 80>>)
            /\ JoinAttempt.client = "slave" /\ QueryAttempt.client = "self"
            /\ JoinAttempt.issued < QueryAttempt.ended + intercommand_delay
            /\ last_command_time = QueryAttempt.ended
            /\ slave.last_command_time = JoinAttempt.ended
            /\ session /\ slave.session
        /\ (pc = "done" /\ err = NoErr) => Len(log) = 2 /\ log[2].what = "sent"
C18_Witness ==
    /\ op = "multiroom_add" /\ pc = "done" /\ err = NoErr
    /\ log[2].cmd = "http://B/httpapi.asp?command=ConnectMasterAp:ssid=4c50:ch=11:auth=WPA2PSK:encry=AES:pwd=7077:chext=0"
    /\ JoinAttempt.ended > JoinAttempt.issued
    /\ Len(attempts) = 3


\* C17: inside the verified reboot a connection error on the reboot command counts as a failed
\* attempt like a dead probe: the loop retries while the bound allows, so an operation that ends
\* on such an error has used up its attempts.
RebootOps == {"safe_reboot", "quiet_reboot"}
EndsOnRebootConnError ==
    /\ op \in RebootOps /\ pc = "done" /\ log # <<>>
    /\ log[Len(log)].cmd = "reboot" /\ log[Len(log)].what = "conn"
C17_ConnErrorRetried ==
    EndsOnRebootConnError =>
        /\ max_retries >= 0
        /\ try_count >= max_retries + 1
        /\ err.kind = "APIException"

\* C20: once the verified reboot inside quiet_reboot has failed (an error on the reboot command,
\* or a dead probe on the last attempt), quiet_reboot has ended with that failure, the failing
\* request is the last one sent, and the only volume command sent is the one setting the quiet
\* level.
RebootFailure(i) ==
    \/ log[i].cmd = "reboot" /\ log[i].what \in {"conn", "rejected"}
    \/ log[i].cmd = "getPlayerStatus" /\ log[i].what = "dead" /\ log[i].n >= default_max_retries + 1
FailureKind(i) ==
    IF log[i].cmd = "getPlayerStatus" THEN "APIException"
    ELSE IF log[i].what = "conn" THEN "ConnectionException" ELSE "TypeError"
IsVolumeCommand(i) == \E v \in MinVolume..MaxVolume : log[i].cmd = VolCmd(v)
C20_NoRestoreAfterFailure ==
    op = "quiet_reboot" =>
        \A i \in 1..Len(log) :
            RebootFailure(i) =>
                /\ i = Len(log) /\ pc = "done"
                /\ err.kind = FailureKind(i) /\ ret = PyNone
                /\ log[2].cmd = "setPlayerCmd:vol:1"
                /\ \A j \in 1..Len(log) : IsVolumeCommand(j) => j = 2
C20_Witness ==
    /\ op = "quiet_reboot" /\ pc = "done" /\ Len(log) = 11
    /\ RebootFailure(11) /\ log[11].cmd = "getPlayerStatus"
    /\ old_volume = 50
    /\ err.msg = "Failed to bring device back up after 3 reboot attempts. Giving up."


\* C15: the CLI resolves the longest prefix w1..wj (j >= 1) of the words whose underscore-joined
\* form, hyphens replaced by underscores, is a name the client has; the arguments passed are
\* exactly wj+1..wn, in their order and with their spelling. The words "multiroom add B"
\* resolve to multiroom_add with the single argument B.
Prefix(k) == SubSeq(commands, 1, k)
Names(k) == CommandPhrase(Prefix(k)) \in DOMAIN ClientAttributes
Resolved == pc \notin {"idle", "resolve"} /\ exit_code # 2
Dispatched == Resolved /\ pc # "call"
SomePrefixNames == \E k \in 1..Len(commands) : Names(k)
Exited == pc = "exited"
ExitCodes ==
    /\ exit_code \in {-1, 0, 1, 2}
    /\ Exited <=> exit_code # -1
    /\ Exited => (exit_code = 2 <=> ~SomePrefixNames)
    /\ exit_code = 2 => log = <<>> /\ attempts = <<>>
    /\ Exited => (exit_code = 1 <=> (SomePrefixNames /\ err # NoErr))
    /\ Exited => (exit_code = 0 <=> (SomePrefixNames /\ err = NoErr /\ ret.t = "str"))
\* the steps the process has left at most
PcRank ==
    CASE pc = "idle" -> 10 + MaxWords
      [] pc = "resolve" -> 9
      [] pc = "call" -> 8
      [] pc = "respond" -> 7
      [] pc = "send" -> 6
      [] pc = "request" -> 5
      [] pc = "done" -> 1
      [] OTHER -> 0
StepsLeft == PcRank + Len(cur_command_words) + 8 * (2 - Len(log))
\* at every position before the exit a step can be taken; MultiroomInfoStep assigns every
\* variable under its guard, which is written out here
NotStuck ==
    /\ pc \in {"idle", "resolve", "call", "send", "request", "respond", "done", "exited"}
    /\ pc = "idle" => ENABLED CliStart
    /\ pc = "resolve" => ENABLED (CliUnknown \/ CliUncurry \/ CliFound)
    /\ pc = "call" => ENABLED CliCall
    /\ pc = "send" => ENABLED SendBegin
    /\ pc = "request" => ENABLED SendRequest
    /\ pc = "respond" =>
            \/ op = "multiroom_add" /\ Len(log) = 1
            \/ ENABLED (SimpleReturn \/ MultiroomReturn)
    /\ pc = "done" => ENABLED CliExit
AuthCodeOf(v) == IF v.s = <<"off">> THEN "0" ELSE "1"
SetNetworkCmds(v) == {"setNetwork:" \o AuthCodeOf(v) \o ":" \o p : p \in {"", "secret", "None"}}
ValidAuthCall ==
    /\ op = "wifi_auth" /\ pc = "done"
    /\ value.t = "str" /\ value.s \in {<<"off">>, <<"psk">>}
    /\ value.s = <<"psk">> => ~Falsy(new_pass)
C21_AuthSendsSetNetwork ==
    ValidAuthCall => Len(log) = 1 /\ log[1].cmd \in SetNetworkCmds(value)


\* C22: the loop-mode setter never silently defaults: a requested mode that is neither a name of
\* the loop-mode table nor one of its codes (the number 7, the numeral "7", or the combination
\* repeat:one:shuffle:on that shuffle("on") builds while the device repeats one track) makes the
\* operation fail with an error, and no loop-mode command is sent.
IsLoopName(v) ==
    v.t = "str" /\ \E m \in LoopTable : v.s = <<"repeat", ":", m.rep, ":", "shuffle", ":", m.shuf>>
IsLoopCodeArg(v) ==
    \E m \in LoopTable : (v.t = "int" /\ v.n = m.code) \/ (v.t = "str" /\ v.s = IntStr(m.code))
LoopCommandSent ==
    \E i \in 1..Len(log), c \in -1..9 : log[i].cmd = "setPlayerCmd:loopmode:" \o Join(IntStr(c))
UnknownModeRequested ==
    \/ op = "_loop" /\ pc # "idle" /\ ~IsLoopName(value) /\ ~IsLoopCodeArg(value)
    \/ /\ op = "shuffle" /\ value.t = "str" /\ value.s \in {<<"on">>, <<"1">>}
       /\ pc \in {"loop_set", "done"} /\ ReadCode /\ log[1].n = 1
C22_NeverDefaults ==
    UnknownModeRequested => pc = "done" /\ err.kind = "APIException" /\ ~LoopCommandSent
====
